---- MODULE Spec2Model ----
\* ClipForge: the resumable stage pipeline (clipforge/pipeline.py), its
\* checkpoint store, the bounded-retry segmentation call and the transcript
\* chunker (clipforge/segment.py), modelled as state machines.
EXTENDS Integers, Sequences, FiniteSets, TLC

\* ---------------------------------------------------------------- bounds
MaxRuns == 2        \* runs of the pipeline on one output directory
MaxTamper == 1      \* external deletions / truncations of checkpoint files
MaxClips == 1       \* clips the validator can return
MaxSaves == 2       \* saves made on the store used on its own
MaxData == 2        \* distinct payloads saved on the store used on its own
MaxChunks == 2      \* chunks segment_topics is given
MaxProps == 2       \* proposals in one response of the language model
MaxLines == 4       \* lines of the transcript given to _chunk_transcript
MaxSegs == 3        \* proposals given to _merge_segments

\* ---------------------------------------------------------------- state
VARIABLES
  ckpt,      \* the output directory: stage -> checkpoint file
  resume,    \* config.resume of the current run
  status,    \* "idle" | "running" | "done" | "failed" | "interrupted"
  pc,        \* the stage run() is at
  phase,     \* "check" | "logic" | "save" within the stage handler
  out,       \* stage -> <<return value of its handler>> in this run
  arg,       \* stage -> <<arguments its collaborator was called with>>
  log,       \* events of this run: <<stage, "exec"|"call"|"save"|"skip">>
  err,       \* the exception that ended the run ("none" if none)
  runs,      \* runs started so far
  tampers,   \* external changes made so far
  ckpt0,     \* stage -> what its checkpoint file was when this run started
  \* the checkpoint store used on its own (tests/test_pipeline.py)
  sdir,      \* the output directory: stage -> checkpoint file
  saved,     \* stage -> <<payload, number>> of the last save made for it
  loaded,    \* <<stage, result>> of the last _load_checkpoint call
  saves,     \* _save_checkpoint calls made so far
  \* segment_topics (clipforge/segment.py)
  gstatus,      \* "idle" | "calling" | "returned" | "raised"
  nchunks,      \* len(chunks)
  ci,           \* the chunk the for loop is at (1-based)
  attempt,      \* the attempt _call_ollama is at
  reqs,         \* the requests issued: [chunk, attempt, outcome]
  all_segments, \* the proposals collected from the chunks done
  gret,         \* <<segments of the SegmentationResult returned>>
  gcause,       \* <<exception the SegmentationError raised was raised from>>
  \* _chunk_transcript (clipforge/segment.py)
  cphase,       \* "idle" | "entry" | "loop" | "done"
  lines,        \* formatted.split("\n"): [len, ts] of each line
  start_idx,    \* the line (0-based) the next window starts at
  chunks,       \* the chunks emitted: [text, offset]
  \* _merge_segments (clipforge/segment.py)
  mphase,       \* "idle" | "entry" | "sweep" | "done"
  msegs,        \* the argument all_segments
  sorted_segs,  \* sorted(all_segments, key=start_time)
  mi,           \* the position in sorted_segs the for loop is at
  merged,       \* the list merged
  \* _segments_overlap (clipforge/segment.py)
  oargs,        \* <<a, b>>: the arguments of the call
  oret,         \* <<value returned>>
  \* _find_nearest_boundary (clipforge/validate.py)
  nargs,        \* <<time, boundaries>>: the arguments of the call
  nret,         \* <<value returned>>
  \* _build_sentence_boundaries (clipforge/validate.py)
  bargs,        \* <<transcription>>: the argument of the call
  bret,         \* <<list returned>>
  \* validate_clips (clipforge/validate.py)
  vphase,       \* "idle" | "entry" | "snap" | "resolve" | "index" | "done"
  vargs,        \* [segments, transcription, config]: the arguments
  vboundaries,  \* boundaries: built from the transcription
  vclips,       \* clips: the list being built
  vi,           \* the position the current for loop is at (0-based)
  vskipped,     \* skipped: the segments skipped so far
  \* review_clips (clipforge/review.py)
  rphase,       \* "idle" | "called" | "clip" | "summary" | "done" | "raised" | "cancelled"
  rargs,        \* <<[clips, skip_review]>>: the arguments of the call
  rclips,       \* the clip objects of the list given, as they are now
  ri,           \* the place in clips the outer for loop is at
  rret,         \* <<list returned>>
  rtyped        \* <<what was typed at "Proceed with extraction? (y/n): ">>

pvars == <<ckpt, resume, status, pc, phase, out, arg, log, err, runs,
           tampers, ckpt0>>

tvars == <<sdir, saved, loaded, saves>>

gvars == <<gstatus, nchunks, ci, attempt, reqs, all_segments, gret, gcause>>

cvars == <<cphase, lines, start_idx, chunks>>

mvars == <<mphase, msegs, sorted_segs, mi, merged>>

ovars == <<oargs, oret>>

nvars == <<nargs, nret>>

bvars == <<bargs, bret>>

vvars == <<vphase, vargs, vboundaries, vclips, vi, vskipped>>

rvars == <<rphase, rargs, rclips, ri, rret, rtyped>>

\* The functions of review.py called on their own.
xvars == <<rvars>>

\* The functions of segment.py and validate.py called on their own.
fvars == <<mvars, ovars, nvars, bvars, vvars, xvars>>

\* What each of them leaves alone.
notMerge == <<pvars, tvars, gvars, cvars, ovars, nvars, bvars, vvars, xvars>>
notOverlap == <<pvars, tvars, gvars, cvars, mvars, nvars, bvars, vvars, xvars>>
notNearest == <<pvars, tvars, gvars, cvars, mvars, ovars, bvars, vvars, xvars>>
notBuild == <<pvars, tvars, gvars, cvars, mvars, ovars, nvars, vvars, xvars>>
notValidate == <<pvars, tvars, gvars, cvars, mvars, ovars, nvars, bvars, xvars>>
notReview == <<pvars, tvars, gvars, cvars, mvars, ovars, nvars, bvars, vvars>>

vars == <<pvars, tvars, gvars, cvars, fvars>>

\* What an operation of the pipeline leaves alone.
notPipeline == <<tvars, gvars, cvars, fvars>>

\* ---------------------------------------------------------------- stages
\* class Stage: the seven stages in execution order.
AUDIO == 1
TRANSCRIBE == 2
SEGMENT == 3
VALIDATE == 4
REVIEW == 5
EXTRACT == 6
MANIFEST == 7

Stages == AUDIO..MANIFEST

StageValue(s) ==
  <<"audio", "transcribe", "segment", "validate", "review", "extract",
    "manifest">>[s]

\* ---------------------------------------------------------------- values
\* pathlib.Path(x) and str(path): a Path is not the string it was made from.
Path(x) == [path |-> x]
Str(p) == p.path

\* A pydantic model instance, model_dump() of it, and Model(**dict).
Model(cls, d) == [cls |-> cls, fields |-> d]
ModelDump(o) == o.fields

Clip(i, st) == Model("ValidatedClip", [index |-> i, status |-> st])

\* [c.model_dump() for c in clips] and [ValidatedClip(**c) for c in ...]
DumpClips(clips) == [i \in 1..Len(clips) |-> ModelDump(clips[i])]
LoadClips(ds) == [i \in 1..Len(ds) |-> Model("ValidatedClip", ds[i])]

\* [str(p) for p in paths] and [Path(p) for p in ...]
StrPaths(paths) == [i \in 1..Len(paths) |-> Str(paths[i])]
LoadPaths(ss) == [i \in 1..Len(ss) |-> Path(ss[i])]

\* [c for c in clips if c.status == "approved"]
IsApproved(c) == c.fields.status = "approved"
Approved(clips) == SelectSeq(clips, IsApproved)

\* ---------------------------------------------------------------- checkpoint store
Absent == [kind |-> "absent"]
Corrupt == [kind |-> "corrupt"]

\* Which checkpoint files of a directory exist, and whether they parse.
Listing(dir) == [q \in Stages |-> [kind |-> dir[q].kind]]

\* One file shared by all the stages.
CheckpointPathShared(s) == AUDIO

\* Pipeline._checkpoint_path: one file per stage, named by the stage value.
CheckpointPath(s) == s

\* json.dumps(PipelineCheckpoint(...).model_dump()) written to the stage's file.
CheckpointFile(s, data, now) ==
  [kind |-> "valid", stage |-> StageValue(s), data |-> data, timestamp |-> now]

\* A save that writes nothing.
SaveCheckpointLost(dir, s, data, now) == dir

\* Pipeline._save_checkpoint: the directory after the write.
SaveCheckpoint(dir, s, data, now) ==
  [dir EXCEPT ![CheckpointPath(s)] = CheckpointFile(s, data, now)]

\* Pipeline._load_checkpoint: <<"none">> (no file), <<"raise">> (json.loads
\* fails) or <<"data", raw["data"]>>.
LoadCheckpoint(dir, s) ==
  LET f == dir[CheckpointPath(s)] IN
  CASE f.kind = "absent" -> <<"none">>
    [] f.kind = "corrupt" -> <<"raise">>
    [] OTHER -> <<"data", f.data>>

\* _should_skip without the test of config.resume.
ShouldSkipIgnoresResume(dir, res, s) ==
  LET f == dir[s] IN
  CASE f.kind = "absent" -> "false"
    [] f.kind = "corrupt" -> "raise"
    [] OTHER -> "true"

\* _should_skip that never finds a checkpoint.
ShouldSkipNever(dir, res, s) == "false"

\* Pipeline._should_skip: "false" | "true" | "raise".
ShouldSkip(dir, res, s) ==
  IF ~res THEN "false"
  ELSE LET r == LoadCheckpoint(dir, s) IN
       CASE r[1] = "none" -> "false"
         [] r[1] = "raise" -> "raise"
         [] OTHER -> "true"

\* ---------------------------------------------------------------- stage handlers
\* What each handler stores: the data argument of its _save_checkpoint call.
StagePayload(s, o, approved) ==
  CASE s = AUDIO -> [audio_path |-> Str(o)]
    [] s = TRANSCRIBE -> [transcription |-> ModelDump(o)]
    [] s = SEGMENT -> [segmentation |-> ModelDump(o)]
    [] s = VALIDATE -> [clips |-> DumpClips(o)]
    [] s = REVIEW -> [clips |-> DumpClips(o)]
    [] s = EXTRACT -> [extracted |-> Len(approved), paths |-> StrPaths(o)]
    [] OTHER -> [manifest_path |-> Str(o)]

\* What each handler returns on the resume branch, from the loaded data.
FromCheckpoint(s, d) ==
  CASE s = AUDIO -> Path(d.audio_path)
    [] s = TRANSCRIBE -> Model("TranscriptionResult", d.transcription)
    [] s = SEGMENT -> Model("SegmentationResult", d.segmentation)
    [] s = VALIDATE -> LoadClips(d.clips)
    [] s = REVIEW -> LoadClips(d.clips)
    [] s = EXTRACT -> LoadPaths(d.paths)
    [] OTHER -> "None"

\* The value run() holds for a stage once its handler has returned.
Out(s) == out[s][1]

\* The arguments run() passes to the collaborator of each stage.
StageInput(s) ==
  CASE s = AUDIO -> Path("input_video")
    [] s = TRANSCRIBE -> Out(AUDIO)
    [] s = SEGMENT -> Out(TRANSCRIBE)
    [] s = VALIDATE -> <<Out(SEGMENT), Out(TRANSCRIBE)>>
    [] s = REVIEW -> Out(VALIDATE)
    [] s = EXTRACT -> Approved(Out(REVIEW))
    [] OTHER -> <<Approved(Out(REVIEW)), Out(EXTRACT)>>

\* review_clips: the approved clips, in order, each marked approved.
ReviewResults(clips) ==
  { SelectSeq([i \in 1..Len(clips) |-> Clip(clips[i].fields.index, "approved")],
              LAMBDA c : c.fields.index \in keep) :
      keep \in SUBSET { clips[i].fields.index : i \in 1..Len(clips) } }

\* extract_clips: one path per clip it is given, named by the clip's index.
ExtractPath(c) == Path(<<"clip", c.fields.index>>)

\* datetime.now(): the clock moves on between runs, so what one run writes
\* or computes carries that run's time.
Now == runs

\* The results the collaborator of a stage can return for its arguments. The
\* transcription and segmentation are opaque to run(): each call returns a
\* result of its own, told apart from those of other runs by its time.
CollaboratorResults(s, in) ==
  CASE s = AUDIO -> { Path("audio.wav") }
    [] s = TRANSCRIBE -> { Model("TranscriptionResult", Now) }
    [] s = SEGMENT -> { Model("SegmentationResult", Now) }
    [] s = VALIDATE ->
         { [i \in 1..n |-> Clip(i, "pending")] : n \in 0..MaxClips }
    [] s = REVIEW -> ReviewResults(in)
    [] s = EXTRACT -> { [i \in 1..Len(in) |-> ExtractPath(in[i])] }
    [] OTHER -> { Path("manifest.json") }

\* The value a handler returns after its collaborator returned r.
HandlerReturn(s, r) == IF s = MANIFEST THEN "None" ELSE r

\* ---------------------------------------------------------------- run()
NoOut == [s \in Stages |-> <<>>]

\* run() calling the MANIFEST handler again instead of returning.
AdvanceReenters(s) ==
  /\ pc' = IF s = MANIFEST THEN MANIFEST ELSE s + 1
  /\ phase' = "check"
  /\ UNCHANGED status

\* The return of a stage handler: run() moves on, or returns output_dir.
Advance(s) ==
  IF s = MANIFEST
    THEN /\ status' = "done"
         /\ UNCHANGED <<pc, phase>>
    ELSE /\ pc' = s + 1
         /\ phase' = "check"
         /\ UNCHANGED status

\* cli.main starts Pipeline(config).run(): mkdir, then the AUDIO handler.
StartRun(r) ==
  /\ status = "idle"
  /\ runs < MaxRuns
  /\ runs' = runs + 1
  /\ resume' = r
  /\ status' = "running"
  /\ pc' = AUDIO
  /\ phase' = "check"
  /\ out' = NoOut
  /\ arg' = NoOut
  /\ log' = <<>>
  /\ err' = "none"
  /\ ckpt0' = Listing(ckpt)
  /\ UNCHANGED <<ckpt, tampers>>
  /\ UNCHANGED notPipeline

\* A resume branch that saves the checkpoint it has just loaded.
SkipStageRewrites(s) ==
  /\ status = "running" /\ pc = s /\ phase = "check"
  /\ ShouldSkip(ckpt, resume, s) = "true"
  /\ out' = [out EXCEPT ![s] = <<FromCheckpoint(s, LoadCheckpoint(ckpt, s)[2])>>]
  /\ ckpt' = SaveCheckpoint(ckpt, s, LoadCheckpoint(ckpt, s)[2], Now)
  /\ log' = Append(log, <<s, "skip">>)
  /\ Advance(s)
  /\ UNCHANGED <<resume, arg, err, runs, tampers, ckpt0>>
  /\ UNCHANGED notPipeline

\* _should_skip(stage) is true: the handler returns the checkpoint's data.
SkipStage(s) ==
  /\ status = "running" /\ pc = s /\ phase = "check"
  /\ ShouldSkip(ckpt, resume, s) = "true"
  /\ out' = [out EXCEPT ![s] = <<FromCheckpoint(s, LoadCheckpoint(ckpt, s)[2])>>]
  /\ log' = Append(log, <<s, "skip">>)
  /\ Advance(s)
  /\ UNCHANGED <<ckpt, resume, arg, err, runs, tampers,
                 ckpt0>>
  /\ UNCHANGED notPipeline

\* _should_skip(stage) is false: the handler goes on to the stage logic.
EnterStage(s) ==
  /\ status = "running" /\ pc = s /\ phase = "check"
  /\ ShouldSkip(ckpt, resume, s) = "false"
  /\ phase' = "logic"
  /\ log' = Append(log, <<s, "exec">>)
  /\ UNCHANGED <<ckpt, resume, status, pc, out, arg, err, runs,
                 tampers, ckpt0>>
  /\ UNCHANGED notPipeline

\* _should_skip(stage) raises: json.loads fails on the stage's file, and
\* nothing between _load_checkpoint and cli.main catches it.
CheckpointUnreadable(s) ==
  /\ status = "running" /\ pc = s /\ phase = "check"
  /\ ShouldSkip(ckpt, resume, s) = "raise"
  /\ status' = "failed"
  /\ err' = "JSONDecodeError"
  /\ UNCHANGED <<ckpt, resume, pc, phase, out, arg, log,
                 runs, tampers, ckpt0>>
  /\ UNCHANGED notPipeline

\* _run_extract_stage with no approved clip: no collaborator call.
NothingToExtract ==
  /\ status = "running" /\ pc = EXTRACT /\ phase = "logic"
  /\ StageInput(EXTRACT) = <<>>
  /\ out' = [out EXCEPT ![EXTRACT] = << <<>> >>]
  /\ phase' = "save"
  /\ UNCHANGED <<ckpt, resume, status, pc, arg, log, err, runs,
                 tampers, ckpt0>>
  /\ UNCHANGED notPipeline

\* A handler that calls its collaborator whatever it has to give it.
CallEnabledEvenEmpty(s) ==
  status = "running" /\ pc = s /\ phase = "logic"

\* The stage's collaborator is called.
CallEnabled(s) ==
  /\ status = "running" /\ pc = s /\ phase = "logic"
  /\ s = EXTRACT => StageInput(EXTRACT) # <<>>

\* The collaborator returns r.
CollaboratorReturns(s) ==
  /\ CallEnabled(s)
  /\ \E r \in CollaboratorResults(s, StageInput(s)) :
       out' = [out EXCEPT ![s] = <<HandlerReturn(s, r)>>]
  /\ arg' = [arg EXCEPT ![s] = <<StageInput(s)>>]
  /\ log' = Append(log, <<s, "call">>)
  /\ phase' = "save"
  /\ UNCHANGED <<ckpt, resume, status, pc, err, runs,
                 tampers, ckpt0>>
  /\ UNCHANGED notPipeline

\* The collaborator raises: the typed error of the stage, or SystemExit from
\* the reviewer declining. run() catches nothing.
StageError(s) ==
  <<"AudioExtractionError", "TranscriptionError", "SegmentationError",
    "ValidationError", "SystemExit", "ExtractionError", "Exception">>[s]

\* A handler that catches the first failure of its collaborator and calls
\* it again.
CollaboratorRaisesRetried(s) ==
  /\ CallEnabled(s)
  /\ arg' = [arg EXCEPT ![s] = <<StageInput(s)>>]
  /\ log' = Append(log, <<s, "call">>)
  /\ IF \E i \in 1..Len(log) : log[i] = <<s, "call">>
       THEN status' = "failed" /\ err' = StageError(s)
       ELSE UNCHANGED <<status, err>>
  /\ UNCHANGED <<ckpt, resume, pc, phase, out, runs, tampers, ckpt0>>
  /\ UNCHANGED notPipeline

CollaboratorRaises(s) ==
  /\ CallEnabled(s)
  /\ arg' = [arg EXCEPT ![s] = <<StageInput(s)>>]
  /\ log' = Append(log, <<s, "call">>)
  /\ status' = "failed"
  /\ err' = StageError(s)
  /\ UNCHANGED <<ckpt, resume, pc, phase, out, runs,
                 tampers, ckpt0>>
  /\ UNCHANGED notPipeline

\* Ctrl-C while the collaborator is blocking: KeyboardInterrupt.
Interrupt(s) ==
  /\ CallEnabled(s)
  /\ arg' = [arg EXCEPT ![s] = <<StageInput(s)>>]
  /\ log' = Append(log, <<s, "call">>)
  /\ status' = "interrupted"
  /\ err' = "KeyboardInterrupt"
  /\ UNCHANGED <<ckpt, resume, pc, phase, out, runs,
                 tampers, ckpt0>>
  /\ UNCHANGED notPipeline

\* A handler whose _save_checkpoint call never comes back.
SaveStageBlocks(s) ==
  /\ status = "running" /\ pc = s /\ phase = "save"
  /\ UNCHANGED vars

\* The handler's _save_checkpoint call and its return.
SaveStage(s) ==
  /\ status = "running" /\ pc = s /\ phase = "save"
  /\ LET o == IF s = MANIFEST THEN Path("manifest.json") ELSE Out(s)
         approved == IF s = EXTRACT THEN StageInput(EXTRACT) ELSE <<>>
     IN ckpt' = SaveCheckpoint(ckpt, s, StagePayload(s, o, approved), Now)
  /\ log' = Append(log, <<s, "save">>)
  /\ Advance(s)
  /\ UNCHANGED <<resume, out, arg, err, runs, tampers, ckpt0>>
  /\ UNCHANGED notPipeline

\* errors.py: the classes derived from ClipForgeError.
ClipForgeErrors ==
  {"AudioExtractionError", "TranscriptionError", "SegmentationError",
   "ValidationError", "ExtractionError", "PipelineError"}

\* A main without the except KeyboardInterrupt clause: the interpreter ends
\* with the status of any exception nobody caught.
ExitStatusNoInterruptClause ==
  CASE err = "none" -> 0
    [] OTHER -> 1

\* cli.main: the exit status of the process. What main does not catch
\* (SystemExit("Extraction cancelled by user"), JSONDecodeError, any other
\* exception) ends the interpreter with status 1.
ExitStatus ==
  CASE err = "none" -> 0
    [] err = "KeyboardInterrupt" -> 130
    [] err \in ClipForgeErrors -> 1
    [] OTHER -> 1

\* cli.main: what the user is told last: the log line of main, the text of
\* SystemExit, or the traceback of the interpreter, which names the error.
ExitMessage ==
  CASE err = "none" -> <<"Pipeline complete">>
    [] err = "KeyboardInterrupt" -> <<"Interrupted by user.">>
    [] err \in ClipForgeErrors -> <<"Pipeline failed", err>>
    [] err = "SystemExit" -> <<"Extraction cancelled by user">>
    [] OTHER -> <<"Traceback", err>>

\* No stage has a checkpoint file.
AllAbsent(dir) == \A s \in Stages : dir[s].kind = "absent"

Exit ==
  /\ status \in {"done", "failed", "interrupted"}
  /\ status' = "idle"
  /\ pc' = AUDIO
  /\ phase' = "check"
  /\ out' = NoOut
  /\ arg' = NoOut
  /\ log' = <<>>
  /\ err' = "none"
  /\ resume' = FALSE
  /\ ckpt0' = Listing(ckpt)
  /\ UNCHANGED <<ckpt, runs, tampers>>
  /\ UNCHANGED notPipeline

\* Between runs something outside the program deletes a checkpoint file
\* (cleanup) or leaves it truncated.
Tamper(s, k) ==
  /\ status = "idle"
  /\ tampers < MaxTamper
  /\ ckpt[s].kind = "valid"
  /\ ckpt' = [ckpt EXCEPT ![s] = k]
  /\ tampers' = tampers + 1
  /\ ckpt0' = Listing(ckpt')
  /\ UNCHANGED <<resume, status, pc, phase, out, arg, log, err, runs>>
  /\ UNCHANGED notPipeline

\* The store used on its own is not in use.
StoreIdle ==
  /\ sdir = [s \in Stages |-> Absent]
  /\ saved = NoOut
  /\ loaded = <<>>
  /\ saves = 0

\* segment_topics is not running.
SegmentIdle ==
  /\ gstatus = "idle"
  /\ nchunks = 0
  /\ ci = 0
  /\ attempt = 0
  /\ reqs = <<>>
  /\ all_segments = <<>>
  /\ gret = <<>>
  /\ gcause = <<>>

\* _chunk_transcript is not running.
ChunkIdle ==
  /\ cphase = "idle"
  /\ lines = <<>>
  /\ start_idx = 0
  /\ chunks = <<>>

\* _merge_segments is not running.
MergeIdle ==
  /\ mphase = "idle"
  /\ msegs = <<>>
  /\ sorted_segs = <<>>
  /\ mi = 0
  /\ merged = <<>>

\* _segments_overlap is not called.
OverlapIdle ==
  /\ oargs = <<>>
  /\ oret = <<>>

\* _find_nearest_boundary is not called.
NearestIdle ==
  /\ nargs = <<>>
  /\ nret = <<>>

\* _build_sentence_boundaries is not called.
BuildIdle ==
  /\ bargs = <<>>
  /\ bret = <<>>

\* validate_clips is not running.
ValidateIdle ==
  /\ vphase = "idle"
  /\ vargs = <<>>
  /\ vboundaries = <<>>
  /\ vclips = <<>>
  /\ vi = 0
  /\ vskipped = 0

\* review_clips is not running.
ReviewIdle ==
  /\ rphase = "idle"
  /\ rargs = <<>>
  /\ rclips = <<>>
  /\ ri = 0
  /\ rret = <<>>
  /\ rtyped = <<>>

\* None of the functions of review.py is running.
ExtraIdle == ReviewIdle

\* None of the functions called on their own is running.
FunctionsIdle ==
  MergeIdle /\ OverlapIdle /\ NearestIdle /\ BuildIdle /\ ValidateIdle /\ ExtraIdle

Init ==
  /\ ckpt = [s \in Stages |-> Absent]
  /\ resume = FALSE
  /\ status = "idle"
  /\ pc = AUDIO
  /\ phase = "check"
  /\ out = NoOut
  /\ arg = NoOut
  /\ log = <<>>
  /\ err = "none"
  /\ runs = 0
  /\ tampers = 0
  /\ ckpt0 = [s \in Stages |-> Absent]
  /\ StoreIdle
  /\ SegmentIdle
  /\ ChunkIdle
  /\ FunctionsIdle

Next ==
  \/ \E r \in BOOLEAN : StartRun(r)
  \/ \E s \in Stages : SkipStage(s)
  \/ \E s \in Stages : EnterStage(s)
  \/ \E s \in Stages : CheckpointUnreadable(s)
  \/ NothingToExtract
  \/ \E s \in Stages : CollaboratorReturns(s)
  \/ \E s \in Stages : CollaboratorRaises(s)
  \/ \E s \in Stages : Interrupt(s)
  \/ \E s \in Stages : SaveStage(s)
  \/ Exit
  \/ \E s \in Stages, k \in {Absent, Corrupt} : Tamper(s, k)

Spec == Init /\ [][Next]_vars

\* ---------------------------------------------------------------- the store on its own
\* The payloads saved: JSON objects, as the stage handlers build them.
StoreData == { [audio_path |-> v] : v \in 1..MaxData }

\* No run of the pipeline is under way.
PipelineIdle ==
  /\ ckpt = [s \in Stages |-> Absent]
  /\ resume = FALSE
  /\ status = "idle"
  /\ pc = AUDIO
  /\ phase = "check"
  /\ out = NoOut
  /\ arg = NoOut
  /\ log = <<>>
  /\ err = "none"
  /\ runs = 0
  /\ tampers = 0
  /\ ckpt0 = [s \in Stages |-> Absent]

\* pipeline._save_checkpoint(stage, data) on a fresh output directory.
StoreSave(s, d) ==
  /\ saves < MaxSaves
  /\ sdir' = SaveCheckpoint(sdir, s, d, saves + 1)
  /\ saved' = [saved EXCEPT ![s] = <<d, saves + 1>>]
  /\ saves' = saves + 1
  /\ loaded' = <<>>
  /\ UNCHANGED <<pvars, gvars, cvars, fvars>>

\* loaded = pipeline._load_checkpoint(stage)
StoreLoad(s) ==
  /\ loaded' = <<s, LoadCheckpoint(sdir, s)>>
  /\ UNCHANGED <<sdir, saved, saves>>
  /\ UNCHANGED <<pvars, gvars, cvars, fvars>>

StoreInit ==
  /\ PipelineIdle /\ StoreIdle /\ SegmentIdle /\ ChunkIdle /\ FunctionsIdle

StoreNext ==
  \/ \E s \in Stages, d \in StoreData : StoreSave(s, d)
  \/ \E s \in Stages : StoreLoad(s)

StoreSpec == StoreInit /\ [][StoreNext]_vars

\* What loading stage s must give after the saves made so far.
LastSaved(s) ==
  IF saved[s] = <<>> THEN <<"none">> ELSE <<"data", saved[s][1]>>

\* C6: loading a stage gives the payload of the last save made for that
\* stage, whatever was saved for other stages, and the absent result (no
\* error) for a stage never saved; a save changes the file of its stage only.
C6_RoundTripLastWriteWins ==
  /\ [](\A s \in Stages : LoadCheckpoint(sdir, s) = LastSaved(s))
  /\ [](loaded # <<>> => loaded[2] = LastSaved(loaded[1]))
  /\ [][\A s \in Stages : saved'[s] = saved[s] => sdir'[s] = sdir[s]]_vars

\* A stage's checkpoint overwritten by a second save, then loaded.
C6_Witness ==
  /\ saves = 2
  /\ saved[TRANSCRIBE] = <<[audio_path |-> 2], 2>>
  /\ sdir[TRANSCRIBE].timestamp = 2
  /\ loaded = <<TRANSCRIBE, <<"data", [audio_path |-> 2]>> >>

\* A load of a stage never saved, after a save for another stage.
C6_WitnessAbsent ==
  /\ saves = 1
  /\ saved[AUDIO] # <<>>
  /\ loaded = <<SEGMENT, <<"none">> >>

\* ---------------------------------------------------------------- segment.py
MAX_RETRIES == 3

\* A TopicSegment. Times are in seconds; confidence in tenths.
TopicSegment(title, st, en, cf) ==
  [title |-> title, start_time |-> st, end_time |-> en, confidence |-> cf]

\* An overlap of exactly half of the shorter one counts.
SegmentsOverlapAtHalf(a, b) ==
  LET lo == IF a.start_time >= b.start_time THEN a.start_time ELSE b.start_time
      hi == IF a.end_time <= b.end_time THEN a.end_time ELSE b.end_time
      da == a.end_time - a.start_time
      db == b.end_time - b.start_time
      shorter == IF da <= db THEN da ELSE db
  IN shorter > 0 /\ hi - lo > 0 /\ 2 * (hi - lo) >= shorter

\* The overlap is measured against the duration of a, not of the shorter.
SegmentsOverlapOfFirst(a, b) ==
  LET lo == IF a.start_time >= b.start_time THEN a.start_time ELSE b.start_time
      hi == IF a.end_time <= b.end_time THEN a.end_time ELSE b.end_time
      da == a.end_time - a.start_time
      db == b.end_time - b.start_time
  IN da > 0 /\ db > 0 /\ hi - lo > 0 /\ 2 * (hi - lo) > da

\* _segments_overlap: the overlap is more than half of the shorter one.
SegmentsOverlap(a, b) ==
  LET overlap_start == IF a.start_time >= b.start_time
                         THEN a.start_time ELSE b.start_time
      overlap_end == IF a.end_time <= b.end_time
                       THEN a.end_time ELSE b.end_time
      overlap_duration == IF overlap_end - overlap_start > 0
                            THEN overlap_end - overlap_start ELSE 0
      da == a.end_time - a.start_time
      db == b.end_time - b.start_time
      shorter_duration == IF da <= db THEN da ELSE db
  IN IF shorter_duration <= 0 THEN FALSE
     ELSE 2 * overlap_duration > shorter_duration

\* sorted(all_segments, key=lambda s: s.start_time): a stable sort.
RECURSIVE InsertByStart(_, _)
InsertByStart(sorted, x) ==
  IF sorted = <<>> THEN <<x>>
  ELSE IF sorted[Len(sorted)].start_time <= x.start_time
    THEN Append(sorted, x)
    ELSE Append(InsertByStart(SubSeq(sorted, 1, Len(sorted) - 1), x),
                sorted[Len(sorted)])

\* The proposals are swept in the order given.
SortedAsGiven(xs) == xs

RECURSIVE SortedByStart(_)
SortedByStart(xs) ==
  IF xs = <<>> THEN <<>>
  ELSE InsertByStart(SortedByStart(SubSeq(xs, 1, Len(xs) - 1)), xs[Len(xs)])

\* A sweep that on an overlap always keeps the later proposal.
SweepStepKeepsLater(acc, seg) ==
  IF SegmentsOverlap(acc[Len(acc)], seg)
    THEN [acc EXCEPT ![Len(acc)] = seg]
    ELSE Append(acc, seg)

\* A sweep that on an overlap keeps the later proposal when the two have
\* the same confidence.
SweepStepLaterOnTie(acc, seg) ==
  IF SegmentsOverlap(acc[Len(acc)], seg)
    THEN IF seg.confidence >= acc[Len(acc)].confidence
           THEN [acc EXCEPT ![Len(acc)] = seg]
           ELSE acc
    ELSE Append(acc, seg)

\* The body of the for loop of _merge_segments: merged after seg.
SweepStep(acc, seg) ==
  IF SegmentsOverlap(acc[Len(acc)], seg)
    THEN IF seg.confidence > acc[Len(acc)].confidence
           THEN [acc EXCEPT ![Len(acc)] = seg]
           ELSE acc
    ELSE Append(acc, seg)

\* The sweep of _merge_segments over sorted_segs[1:].
RECURSIVE MergeSweep(_, _)
MergeSweep(acc, rest) ==
  IF rest = <<>> THEN acc
  ELSE MergeSweep(SweepStep(acc, Head(rest)), Tail(rest))

\* _merge_segments
MergeSegments(xs) ==
  IF xs = <<>> THEN <<>>
  ELSE LET srt == SortedByStart(xs)
       IN MergeSweep(<<srt[1]>>, Tail(srt))

\* What TopicList.model_validate_json gives for the n proposals of the
\* response to attempt a for chunk c. The title tells the responses apart;
\* consecutive proposals of a response overlap by two thirds, and the
\* response lists them from the latest to the earliest.
ParsedTopics(c, a, n) ==
  [i \in 1..n |-> TopicSegment(<<c, a, i>>, 10 * (c - 1) + n - i,
                                10 * (c - 1) + n - i + 3, 10 - a)]

\* The ways one attempt can fail: ollama.chat raises, or the response does
\* not validate against TopicList.
Failures == {"transport", "parse"}

\* The proposals are merged whatever the number of chunks.
SegmentsReturnedMerged(all) == MergeSegments(all)

\* The end of the for loop of segment_topics: merge if there were several
\* chunks, and return.
SegmentsReturned(all) == IF nchunks > 1 THEN MergeSegments(all) ELSE all

\* An attempt gets a response that parses into n proposals: _call_ollama
\* returns them, segment_topics extends all_segments and goes on to the
\* next chunk, or merges and returns after the last one.
AttemptSucceeds(n) ==
  /\ gstatus = "calling"
  /\ reqs' = Append(reqs, [chunk |-> ci, attempt |-> attempt, outcome |-> "ok"])
  /\ all_segments' = all_segments \o ParsedTopics(ci, attempt, n)
  /\ IF ci = nchunks
       THEN /\ gstatus' = "returned"
            /\ gret' = <<SegmentsReturned(all_segments')>>
            /\ UNCHANGED <<ci, attempt>>
       ELSE /\ ci' = ci + 1
            /\ attempt' = 1
            /\ UNCHANGED <<gstatus, gret>>
  /\ UNCHANGED <<nchunks, gcause>>
  /\ UNCHANGED <<pvars, tvars, cvars, fvars>>

\* range(1, MAX_RETRIES + 2): one attempt too many.
AttemptFailsOffByOne(f) ==
  /\ gstatus = "calling"
  /\ reqs' = Append(reqs, [chunk |-> ci, attempt |-> attempt, outcome |-> f])
  /\ IF attempt = MAX_RETRIES + 1
       THEN /\ gstatus' = "raised"
            /\ gcause' = <<[chunk |-> ci, attempt |-> attempt, outcome |-> f]>>
            /\ UNCHANGED attempt
       ELSE /\ attempt' = attempt + 1
            /\ UNCHANGED <<gstatus, gcause>>
  /\ UNCHANGED <<nchunks, ci, all_segments, gret>>
  /\ UNCHANGED <<pvars, tvars, cvars, fvars>>

\* A chunk whose attempts are exhausted is given up and the loop goes on.
AttemptFailsSkipsChunk(f) ==
  /\ gstatus = "calling"
  /\ reqs' = Append(reqs, [chunk |-> ci, attempt |-> attempt, outcome |-> f])
  /\ IF attempt = MAX_RETRIES
       THEN IF ci = nchunks
              THEN /\ gstatus' = "returned"
                   /\ gret' = <<SegmentsReturned(all_segments)>>
                   /\ UNCHANGED <<ci, attempt>>
              ELSE /\ ci' = ci + 1
                   /\ attempt' = 1
                   /\ UNCHANGED <<gstatus, gret>>
       ELSE /\ attempt' = attempt + 1
            /\ UNCHANGED <<gstatus, gret, ci>>
  /\ UNCHANGED <<nchunks, all_segments, gcause>>
  /\ UNCHANGED <<pvars, tvars, cvars, fvars>>

\* An attempt fails with f: _call_ollama logs it and tries again, or after
\* MAX_RETRIES attempts raises SegmentationError from it, which
\* segment_topics re-raises.
AttemptFails(f) ==
  /\ gstatus = "calling"
  /\ reqs' = Append(reqs, [chunk |-> ci, attempt |-> attempt, outcome |-> f])
  /\ IF attempt = MAX_RETRIES
       THEN /\ gstatus' = "raised"
            /\ gcause' = <<[chunk |-> ci, attempt |-> attempt, outcome |-> f]>>
            /\ UNCHANGED attempt
       ELSE /\ attempt' = attempt + 1
            /\ UNCHANGED <<gstatus, gcause>>
  /\ UNCHANGED <<nchunks, ci, all_segments, gret>>
  /\ UNCHANGED <<pvars, tvars, cvars, fvars>>

\* segment_topics has chunked the transcript and enters its for loop.
SegmentInit ==
  /\ PipelineIdle /\ StoreIdle /\ ChunkIdle /\ FunctionsIdle
  /\ gstatus = "calling"
  /\ nchunks \in 1..MaxChunks
  /\ ci = 1
  /\ attempt = 1
  /\ reqs = <<>>
  /\ all_segments = <<>>
  /\ gret = <<>>
  /\ gcause = <<>>

SegmentNext ==
  \/ \E n \in 0..MaxProps : AttemptSucceeds(n)
  \/ \E f \in Failures : AttemptFails(f)

SegmentSpec == SegmentInit /\ [][SegmentNext]_vars

\* The requests issued for chunk c, in order.
RequestsFor(c) == SelectSeq(reqs, LAMBDA r : r.chunk = c)

\* The proposals collected that came from chunk c.
CollectedFrom(c) == SelectSeq(all_segments, LAMBDA p : p.title[1] = c)

\* _call_ollama has returned for chunk c.
ChunkDone(c) == \E i \in 1..Len(reqs) : reqs[i].chunk = c /\ reqs[i].outcome = "ok"

\* All MAX_RETRIES attempts for chunk c failed.
ChunkExhausted(c) ==
  /\ Len(RequestsFor(c)) = MAX_RETRIES
  /\ \A i \in 1..MAX_RETRIES : RequestsFor(c)[i].outcome # "ok"

\* C8: for one chunk at most 3 requests are issued, numbered 1, 2, ..;
\* none follows a success; what is collected for the chunk is what the one
\* successful attempt parsed, whole and alone; SegmentationError is raised
\* exactly when 3 attempts of a chunk failed, from the last failure.
C8_RetryBound ==
  /\ \A c \in 1..nchunks :
       LET rs == RequestsFor(c) IN
       /\ Len(rs) <= 3
       /\ \A i \in 1..Len(rs) :
            /\ rs[i].attempt = i
            /\ rs[i].outcome = "ok" => i = Len(rs)
       /\ \A i \in 1..Len(rs) :
            rs[i].outcome = "ok" =>
              \E n \in 0..Len(all_segments) :
                CollectedFrom(c) = ParsedTopics(c, i, n)
       /\ ~ChunkDone(c) => CollectedFrom(c) = <<>>
  /\ gstatus = "raised" <=> (\E c \in 1..nchunks : ChunkExhausted(c))
  /\ gstatus = "raised" =>
       /\ gcause = <<reqs[Len(reqs)]>>
       /\ gcause[1].attempt = 3
       /\ gcause[1].outcome \in Failures

\* Two failures, then the third attempt's proposals are returned.
C8_Witness ==
  /\ nchunks = 1 /\ gstatus = "returned"
  /\ Len(reqs) = 3
  /\ reqs[1].outcome = "transport" /\ reqs[2].outcome = "parse"
  /\ gret = <<ParsedTopics(1, 3, 2)>>

\* Three failures raise, from the last of them.
C8_WitnessRaised ==
  /\ gstatus = "raised"
  /\ Len(reqs) = 3
  /\ reqs[1].outcome = "parse" /\ reqs[3].outcome = "transport"
  /\ gcause[1].outcome = "transport"

\* C9: requests are issued chunk by chunk in chunk order, the first one for
\* a chunk only after the chunk before it succeeded; once a chunk has
\* exhausted its attempts nothing more is requested and segment_topics
\* raises, returning nothing of what it had collected.
C9_SequentialChunks ==
  /\ [](\A i \in 1..Len(reqs) :
         /\ i > 1 => reqs[i].chunk >= reqs[i - 1].chunk
         /\ reqs[i].chunk > 1 =>
              \E j \in 1..(i - 1) :
                reqs[j].chunk = reqs[i].chunk - 1 /\ reqs[j].outcome = "ok")
  /\ [](\A c \in 1..nchunks :
         ChunkExhausted(c) =>
           /\ gstatus = "raised"
           /\ gret = <<>>
           /\ \A i \in 1..Len(reqs) : reqs[i].chunk <= c)
  /\ [](gstatus = "returned" => \A c \in 1..nchunks : ChunkDone(c))
  /\ [][gstatus = "raised" => UNCHANGED <<reqs, gret, gstatus>>]_vars

\* The second chunk exhausts its attempts after the first chunk gave
\* proposals: nothing is returned.
C9_Witness ==
  /\ nchunks = 2 /\ gstatus = "raised"
  /\ Len(all_segments) = 2
  /\ ChunkDone(1) /\ ChunkExhausted(2)
  /\ gret = <<>>

\* ---------------------------------------------------------------- _chunk_transcript
MAX_CONTEXT_CHARS == 24000
CHUNK_SIZE == 20000
CHUNK_OVERLAP == 2000

\* The lengths of the lines tried: short ones (two of them make the
\* overlap), one that is the overlap alone, a long one (two fill a chunk
\* to the last character), one longer than a chunk, and two that with the
\* latter make a transcript of MAX_CONTEXT_CHARS characters and of one more.
LineLens == {999, 1999, 3000, 3001, 9999, 20999}

\* int(seg.start) of the first segment; the later ones follow 10 s apart.
FirstTimes == {0, 7}

Transcripts ==
  { [i \in 1..n |-> [len |-> f[i], ts |-> t0 + 10 * (i - 1)]] :
      n \in 1..MaxLines, f \in [1..MaxLines -> LineLens], t0 \in FirstTimes }

RECURSIVE SumLens(_)
SumLens(ls) == IF ls = <<>> THEN 0 ELSE ls[1].len + SumLens(Tail(ls))

\* len(formatted): the lines joined by "\n".
FormattedLen(ls) == SumLens(ls) + Len(ls) - 1

\* _parse_line_time: the seconds in the "[Xs]" prefix of the line.
ParseLineTime(line) == line.ts

\* "\n".join(lines[a:b]): the lines a+1 .. b (1-based), named by position.
JoinLines(a, b) == [k \in 1..(b - a) |-> a + k]

\* The inner while loop that accumulates lines up to CHUNK_SIZE characters.
RECURSIVE Accumulate(_, _, _)
Accumulate(ls, end_idx, char_count) ==
  IF end_idx < Len(ls) /\ char_count + ls[end_idx + 1].len + 1 <= CHUNK_SIZE
    THEN Accumulate(ls, end_idx + 1, char_count + ls[end_idx + 1].len + 1)
    ELSE end_idx

\* Every window is one line.
EndIdxOneLine(ls, start) == start + 1

\* end_idx of the window starting at start: at least one line.
EndIdx(ls, start) ==
  LET e == Accumulate(ls, start, 0) IN IF e = start THEN start + 1 ELSE e

\* The step back counts the lines without their separators.
RECURSIVE StepBackNoSeparator(_, _, _, _)
StepBackNoSeparator(ls, start, overlap_start, overlap_chars) ==
  IF overlap_start > start /\ overlap_chars < CHUNK_OVERLAP
    THEN StepBackNoSeparator(ls, start, overlap_start - 1,
                             overlap_chars + ls[overlap_start].len)
    ELSE overlap_start

\* The while loop that steps back to create the overlap.
RECURSIVE StepBack(_, _, _, _)
StepBack(ls, start, overlap_start, overlap_chars) ==
  IF overlap_start > start /\ overlap_chars < CHUNK_OVERLAP
    THEN StepBack(ls, start, overlap_start - 1,
                  overlap_chars + ls[overlap_start].len + 1)
    ELSE overlap_start

\* The next window starts one line after the window just emitted.
NextStartSkipsLine(ls, start, end_idx) == end_idx + 1

\* start_idx = overlap_start, without the max.
NextStartStalls(ls, start, end_idx) == StepBack(ls, start, end_idx, 0)

\* start_idx = max(overlap_start, start_idx + 1)
NextStart(ls, start, end_idx) ==
  LET overlap_start == StepBack(ls, start, end_idx, 0)
  IN IF overlap_start >= start + 1 THEN overlap_start ELSE start + 1

\* A test that sends a transcript of exactly MAX_CONTEXT_CHARS to the loop.
FitsContextStrict(ls) == FormattedLen(ls) < MAX_CONTEXT_CHARS

\* len(formatted) <= MAX_CONTEXT_CHARS
FitsContext(ls) == FormattedLen(ls) <= MAX_CONTEXT_CHARS

\* if len(formatted) <= MAX_CONTEXT_CHARS: return [(formatted, 0.0)];
\* otherwise the loop starts at line 0.
ChunkEntry ==
  /\ cphase = "entry"
  /\ IF FitsContext(lines)
       THEN /\ chunks' = <<[text |-> JoinLines(0, Len(lines)), offset |-> 0]>>
            /\ cphase' = "done"
       ELSE /\ chunks' = <<>>
            /\ cphase' = "loop"
  /\ start_idx' = 0
  /\ UNCHANGED lines
  /\ UNCHANGED <<pvars, tvars, gvars, fvars>>

\* One iteration of while start_idx < len(lines).
ChunkIteration ==
  /\ cphase = "loop"
  /\ start_idx < Len(lines)
  /\ LET end_idx == EndIdx(lines, start_idx) IN
       /\ chunks' = Append(chunks,
                           [text |-> JoinLines(start_idx, end_idx),
                            offset |-> ParseLineTime(lines[start_idx + 1])])
       /\ start_idx' = NextStart(lines, start_idx, end_idx)
  /\ UNCHANGED <<cphase, lines>>
  /\ UNCHANGED <<pvars, tvars, gvars, fvars>>

\* The loop ends: return chunks.
ChunkReturn ==
  /\ cphase = "loop"
  /\ start_idx >= Len(lines)
  /\ cphase' = "done"
  /\ UNCHANGED <<lines, start_idx, chunks>>
  /\ UNCHANGED <<pvars, tvars, gvars, fvars>>

\* _chunk_transcript(formatted, transcription) is called.
ChunkInit ==
  /\ PipelineIdle /\ StoreIdle /\ SegmentIdle /\ FunctionsIdle
  /\ cphase = "entry"
  /\ lines \in Transcripts
  /\ start_idx = 0
  /\ chunks = <<>>

ChunkNext == ChunkEntry \/ ChunkIteration \/ ChunkReturn

ChunkSpec == ChunkInit /\ [][ChunkNext]_vars

\* _chunk_transcript is sequential code: it keeps taking its next step.
ChunkFairSpec == ChunkSpec /\ WF_vars(ChunkNext)

\* Line i (1-based) is in chunk c.
InChunk(i, c) == \E k \in 1..Len(chunks[c].text) : chunks[c].text[k] = i

\* The text is a run of consecutive lines of the transcript.
IsRunOfLines(text) ==
  /\ Len(text) >= 1
  /\ \A k \in 1..Len(text) :
       /\ text[k] \in 1..Len(lines)
       /\ k > 1 => text[k] = text[k - 1] + 1

\* C10: in what _chunk_transcript returns every line of the transcript is
\* in at least one chunk, and every chunk is a run of consecutive whole
\* lines.
C10_ChunkingCoverage ==
  cphase = "done" =>
    /\ \A i \in 1..Len(lines) : \E c \in 1..Len(chunks) : InChunk(i, c)
    /\ \A c \in 1..Len(chunks) : IsRunOfLines(chunks[c].text)

\* A transcript split into several chunks, with a line shared by two.
C10_Witness ==
  /\ cphase = "done"
  /\ Len(chunks) >= 3
  /\ Len(lines) = 4
  /\ InChunk(2, 1) /\ InChunk(2, 2)
  /\ ~InChunk(4, 1)

\* C11: a transcript of at most MAX_CONTEXT_CHARS characters comes back as
\* one chunk holding all its lines with offset 0, whatever the time of its
\* first line; only a longer transcript comes back as several chunks.
C11_ShortIsOneChunk ==
  cphase = "done" =>
    /\ FormattedLen(lines) <= MAX_CONTEXT_CHARS =>
         chunks = <<[text |-> JoinLines(0, Len(lines)), offset |-> 0]>>
    /\ Len(chunks) > 1 => FormattedLen(lines) > MAX_CONTEXT_CHARS

\* A transcript of exactly MAX_CONTEXT_CHARS characters, longer than
\* CHUNK_SIZE, whose first line is not at time 0, returned whole.
C11_Witness ==
  /\ cphase = "done"
  /\ FormattedLen(lines) = MAX_CONTEXT_CHARS
  /\ Len(lines) = 2
  /\ lines[1].ts = 7
  /\ Len(chunks) = 1 /\ chunks[1].offset = 0

\* A transcript one character longer is split.
C11_WitnessSplit ==
  /\ cphase = "done"
  /\ FormattedLen(lines) = MAX_CONTEXT_CHARS + 1
  /\ Len(chunks) = 2

\* C12: every iteration of the chunking loop moves the window start
\* forward by at least one line, at no time are there more chunks than
\* lines, and the function returns.
C12_ChunkingTerminates ==
  /\ [][start_idx' >= start_idx /\
         (chunks' # chunks /\ cphase = "loop" => start_idx' > start_idx)]_vars
  /\ [](Len(chunks) <= Len(lines))
  /\ <>(cphase = "done")

\* One chunk per line: after a window of one line the step back for the
\* overlap reaches the window's own start.
C12_Witness ==
  /\ cphase = "done"
  /\ Len(lines) = 4
  /\ Len(chunks) = 4
  /\ \A c \in 1..4 : Len(chunks[c].text) = 1

\* The first and the last line (1-based) of chunk c.
FirstLine(c) == chunks[c].text[1]
LastLine(c) == chunks[c].text[Len(chunks[c].text)]

\* The characters of lines a .. b, one separator counted with each line.
RECURSIVE SizeOfLines(_, _)
SizeOfLines(a, b) ==
  IF a > b THEN 0 ELSE lines[a].len + 1 + SizeOfLines(a + 1, b)

\* C27: when a transcript longer than MAX_CONTEXT_CHARS is chunked, every
\* chunk has at least one line; its lines with one separator each take at
\* most CHUNK_SIZE characters unless it is a single line that alone takes
\* more; it ends at the last line of the transcript or the next line would
\* not fit; and its offset is the time of its first line.
C27_GreedyChunks ==
  (cphase = "done" /\ FormattedLen(lines) > MAX_CONTEXT_CHARS) =>
    \A c \in 1..Len(chunks) :
      /\ Len(chunks[c].text) >= 1
      /\ \/ SizeOfLines(FirstLine(c), LastLine(c)) <= CHUNK_SIZE
         \/ /\ Len(chunks[c].text) = 1
            /\ lines[FirstLine(c)].len + 1 > CHUNK_SIZE
      /\ \/ LastLine(c) = Len(lines)
         \/ SizeOfLines(FirstLine(c), LastLine(c) + 1) > CHUNK_SIZE
      /\ chunks[c].offset = lines[FirstLine(c)].ts

\* A chunk of one line that is too long alone, a chunk of several lines that
\* the next line would overfill, and a first line not at time 0.
C27_Witness ==
  /\ cphase = "done"
  /\ Len(lines) = 4
  /\ lines[1].ts = 7
  /\ \E c, d \in 1..Len(chunks) :
       /\ Len(chunks[c].text) = 1 /\ lines[FirstLine(c)].len + 1 > CHUNK_SIZE
       /\ Len(chunks[d].text) >= 2 /\ LastLine(d) < Len(lines)
       /\ chunks[d].offset > 0

\* The latest line of chunk c, after its first, from which the lines up to
\* its last take at least CHUNK_OVERLAP characters; the second line of the
\* chunk if there is none.
OverlapLine(c) ==
  LET enough == { s \in (FirstLine(c) + 1)..LastLine(c) :
                    SizeOfLines(s, LastLine(c)) >= CHUNK_OVERLAP }
  IN IF enough = {} THEN FirstLine(c) + 1
     ELSE CHOOSE s \in enough : \A r \in enough : r <= s

\* C28: of two consecutive chunks the second starts no later than the line
\* after the last line of the first, and after the first line of the first;
\* when the first has more than one line the second starts inside it, at the
\* latest line from which the shared lines take at least CHUNK_OVERLAP
\* characters, or at its second line when that would reach its first line.
C28_ChunkOverlap ==
  cphase = "done" =>
    \A c \in 1..(Len(chunks) - 1) :
      /\ FirstLine(c + 1) <= LastLine(c) + 1
      /\ FirstLine(c + 1) > FirstLine(c)
      /\ Len(chunks[c].text) > 1 =>
           /\ FirstLine(c + 1) <= LastLine(c)
           /\ FirstLine(c + 1) = OverlapLine(c)

\* A chunk of three lines followed by one that shares its last line only,
\* and a chunk of two lines followed by one that starts at its second line
\* because the overlap would reach its first.
C28_Witness ==
  /\ cphase = "done"
  /\ \E c, d \in 1..(Len(chunks) - 1) :
       /\ Len(chunks[c].text) = 3 /\ FirstLine(c + 1) = LastLine(c)
       /\ Len(chunks[d].text) = 2 /\ FirstLine(d + 1) = FirstLine(d) + 1
       /\ SizeOfLines(FirstLine(d) + 1, LastLine(d)) < CHUNK_OVERLAP

\* C39: of the chunks _chunk_transcript returns, each one after the first
\* ends at a later line than the one before it, so none lies wholly inside
\* an earlier one and none follows a chunk that ends at the last line.
C39_ChunksEndLater ==
  cphase = "done" =>
    \A c \in 1..(Len(chunks) - 1) :
      /\ LastLine(c + 1) > LastLine(c)
      /\ LastLine(c) < Len(lines)

\* ---------------------------------------------------------------- _merge_segments
\* The spans (start_time, end_time) of the proposals tried: the three of
\* tests/test_segment.py, one that overlaps the first by exactly half of
\* itself, one inside both of these, and one of no duration.
Spans == {<<0, 60>>, <<20, 80>>, <<40, 80>>, <<40, 60>>, <<100, 150>>, <<20, 20>>}

\* The confidences tried, in tenths.
Confidences == {7, 8, 9}

Proposals ==
  { TopicSegment("topic", sp[1], sp[2], cf) : sp \in Spans, cf \in Confidences }

\* The lists of proposals _merge_segments is given.
ProposalLists ==
  UNION { [1..n -> Proposals] : n \in 0..MaxSegs }

\* if not all_segments: return []; otherwise sort, and merged starts with
\* the first of the sorted proposals.
MergeEntry ==
  /\ mphase = "entry"
  /\ IF msegs = <<>>
       THEN /\ mphase' = "done"
            /\ UNCHANGED <<sorted_segs, mi, merged>>
       ELSE /\ sorted_segs' = SortedByStart(msegs)
            /\ merged' = <<sorted_segs'[1]>>
            /\ mi' = 2
            /\ mphase' = "sweep"
  /\ UNCHANGED msegs
  /\ UNCHANGED notMerge

\* One iteration of for seg in sorted_segs[1:].
MergeStep ==
  /\ mphase = "sweep"
  /\ mi <= Len(sorted_segs)
  /\ merged' = SweepStep(merged, sorted_segs[mi])
  /\ mi' = mi + 1
  /\ UNCHANGED <<mphase, msegs, sorted_segs>>
  /\ UNCHANGED notMerge

\* The loop is over: return merged.
MergeReturn ==
  /\ mphase = "sweep"
  /\ mi > Len(sorted_segs)
  /\ mphase' = "done"
  /\ UNCHANGED <<msegs, sorted_segs, mi, merged>>
  /\ UNCHANGED notMerge

\* _merge_segments(all_segments) is called.
MergeInit ==
  /\ PipelineIdle /\ StoreIdle /\ SegmentIdle /\ ChunkIdle
  /\ OverlapIdle /\ NearestIdle /\ BuildIdle /\ ValidateIdle /\ ExtraIdle
  /\ mphase = "entry"
  /\ msegs \in ProposalLists
  /\ sorted_segs = <<>>
  /\ mi = 0
  /\ merged = <<>>

MergeNext == MergeEntry \/ MergeStep \/ MergeReturn

MergeSpec == MergeInit /\ [][MergeNext]_vars

\* ---------------------------------------------------------------- _segments_overlap
\* The start and end times of the pairs _segments_overlap is tried on; a
\* span may have no duration or end before it starts.
OverlapTimes == {0, 20, 30, 40, 60, 80}

OverlapArgs ==
  { TopicSegment("topic", st, en, 10) : st \in OverlapTimes, en \in OverlapTimes }

\* _segments_overlap(a, b) is called and returns.
OverlapCall ==
  /\ oargs # <<>> /\ oret = <<>>
  /\ oret' = <<SegmentsOverlap(oargs[1], oargs[2])>>
  /\ UNCHANGED oargs
  /\ UNCHANGED notOverlap

OverlapInit ==
  /\ PipelineIdle /\ StoreIdle /\ SegmentIdle /\ ChunkIdle
  /\ MergeIdle /\ NearestIdle /\ BuildIdle /\ ValidateIdle /\ ExtraIdle
  /\ oargs \in OverlapArgs \X OverlapArgs
  /\ oret = <<>>

OverlapNext == OverlapCall

OverlapSpec == OverlapInit /\ [][OverlapNext]_vars

\* ---------------------------------------------------------------- C13 .. C15
\* The whole seconds a proposal covers.
Seconds(a) == { x \in 0..(a.end_time - 1) : x >= a.start_time }

\* The two proposals share more than half of the shorter one.
OverlapsMoreThanHalf(a, b) ==
  LET common == Cardinality(Seconds(a) \cap Seconds(b))
      da == Cardinality(Seconds(a))
      db == Cardinality(Seconds(b))
      shorter == IF da <= db THEN da ELSE db
  IN a.end_time > a.start_time /\ b.end_time > b.start_time
     /\ 2 * common > shorter

\* How many times proposal p is in the list xs.
Occurrences(xs, p) == Cardinality({ i \in 1..Len(xs) : xs[i] = p })

\* ys holds the proposals of xs, each as many times.
SameProposals(xs, ys) ==
  /\ Len(xs) = Len(ys)
  /\ \A i \in 1..Len(xs) : Occurrences(ys, xs[i]) = Occurrences(xs, xs[i])

\* xs is in ascending order of start_time.
AscendingStart(xs) ==
  \A i \in 1..(Len(xs) - 1) : xs[i].start_time <= xs[i + 1].start_time

\* The proposals of test_merge_segments.
SegA == TopicSegment("topic", 0, 60, 9)
SegB == TopicSegment("topic", 20, 80, 8)
SegC == TopicSegment("topic", 100, 150, 7)

\* C13: _merge_segments sweeps the proposals once in ascending start_time
\* order; a proposal that overlaps the last accepted one by more than half
\* of the shorter leaves the one of higher confidence in the last position
\* and the other is dropped, a proposal that does not overlap is appended;
\* A(0-60, 0.9), B(20-80, 0.8), C(100-150, 0.7) give [A, C].
C13_MergeSweep ==
  /\ [](mphase \in {"sweep", "done"} /\ msegs # <<>> =>
          /\ SameProposals(msegs, sorted_segs)
          /\ AscendingStart(sorted_segs))
  /\ [][(mphase = "entry" /\ msegs # <<>>) =>
          (merged' = <<sorted_segs'[1]>> /\ mi' = 2)]_vars
  /\ [][(mphase = "sweep" /\ mphase' = "sweep") =>
          LET last == merged[Len(merged)]
              seg == sorted_segs[mi]
              kept == merged'[Len(merged')]
          IN /\ mi' = mi + 1
             /\ sorted_segs' = sorted_segs
             /\ IF OverlapsMoreThanHalf(last, seg)
                  THEN /\ Len(merged') = Len(merged)
                       /\ SubSeq(merged', 1, Len(merged) - 1)
                            = SubSeq(merged, 1, Len(merged) - 1)
                       /\ kept \in {last, seg}
                       /\ kept.confidence >= last.confidence
                       /\ kept.confidence >= seg.confidence
                  ELSE merged' = Append(merged, seg)]_vars
  /\ []((mphase = "done" /\ SameProposals(msegs, <<SegA, SegB, SegC>>)) =>
          merged = <<SegA, SegC>>)

\* The proposals of the test, given out of order.
C13_Witness ==
  /\ mphase = "done"
  /\ msegs = <<SegC, SegB, SegA>>
  /\ merged = <<SegA, SegC>>

\* No two proposals of the list overlap by more than half of the shorter.
NoPairOverlaps(xs) ==
  \A i \in 1..Len(xs) : \A j \in (i + 1)..Len(xs) :
    ~OverlapsMoreThanHalf(xs[i], xs[j])

\* C14: when no two of the proposals given overlap by more than half of
\* the shorter, _merge_segments returns as many proposals, in ascending
\* start_time order, each with its values as given.
C14_MergeKeepsDisjoint ==
  (mphase = "done" /\ NoPairOverlaps(msegs)) =>
    /\ Len(merged) = Len(msegs)
    /\ AscendingStart(merged)
    /\ SameProposals(msegs, merged)

\* Three proposals given out of order, two of them overlapping by exactly
\* half of the shorter.
C14_Witness ==
  /\ mphase = "done"
  /\ NoPairOverlaps(msegs)
  /\ Len(msegs) = 3
  /\ msegs[1].start_time = 100 /\ msegs[2].start_time = 40
  /\ msegs[3].start_time = 0 /\ msegs[3].end_time = 60
  /\ Len(merged) = 3

\* C15: _segments_overlap(a, b) is true exactly when both have a positive
\* duration and the time they share is more than half of the shorter one
\* (exactly half is not enough), and the answer for (b, a) is the same.
C15_OverlapRule ==
  oret # <<>> =>
    /\ oret[1] = OverlapsMoreThanHalf(oargs[1], oargs[2])
    /\ oret[1] = SegmentsOverlap(oargs[2], oargs[1])
    /\ (oargs[1].end_time <= oargs[1].start_time
          \/ oargs[2].end_time <= oargs[2].start_time) => oret[1] = FALSE

\* A pair sharing exactly half of the shorter one: not overlapping.
C15_Witness ==
  /\ oret = <<FALSE>>
  /\ oargs[1].start_time = 0 /\ oargs[1].end_time = 60
  /\ oargs[2].start_time = 40 /\ oargs[2].end_time = 80

\* A pair sharing more than half of the shorter one.
C15_WitnessTrue ==
  /\ oret = <<TRUE>>
  /\ oargs[1].start_time = 20 /\ oargs[1].end_time = 80
  /\ oargs[2].start_time = 0 /\ oargs[2].end_time = 60

\* C36: what _merge_segments returns holds proposals of the list given
\* only, each as it was given and no more often than given, in ascending
\* start_time order; it is no longer than the list given, and empty only
\* when that is.
C36_MergeReturnsGiven ==
  mphase = "done" =>
    /\ \A i \in 1..Len(merged) :
         /\ Occurrences(msegs, merged[i]) >= 1
         /\ Occurrences(merged, merged[i]) <= Occurrences(msegs, merged[i])
    /\ \A i \in 1..(Len(merged) - 1) :
         merged[i].start_time <= merged[i + 1].start_time
    /\ Len(merged) <= Len(msegs)
    /\ (msegs = <<>>) <=> (merged = <<>>)

\* Three proposals given latest first, the second of higher confidence than
\* the third, which it overlaps: two are returned, in start order.
C36_Witness ==
  /\ mphase = "done"
  /\ msegs = <<TopicSegment("topic", 100, 150, 7), TopicSegment("topic", 20, 80, 9),
               TopicSegment("topic", 0, 60, 8)>>
  /\ merged = <<TopicSegment("topic", 20, 80, 9), TopicSegment("topic", 100, 150, 7)>>

\* Nothing given, nothing returned.
C36_WitnessEmpty ==
  /\ mphase = "done"
  /\ msegs = <<>>
  /\ merged = <<>>

\* C37: in what _merge_segments returns no proposal overlaps the one before
\* it by more than half of the shorter, and merging what was returned gives
\* it back unchanged.
C37_MergeIdempotent ==
  mphase = "done" =>
    /\ \A i \in 1..(Len(merged) - 1) :
         ~OverlapsMoreThanHalf(merged[i], merged[i + 1])
    /\ MergeSegments(merged) = merged

\* The proposal of a chain that is kept: of the highest confidence, and of
\* those the earliest.
Survivor(chain) ==
  LET best == CHOOSE i \in 1..Len(chain) :
                /\ \A j \in 1..Len(chain) : chain[j].confidence <= chain[i].confidence
                /\ \A j \in 1..(i - 1) : chain[j].confidence < chain[i].confidence
  IN chain[best]

\* The chains of merges: a proposal joins the last chain when it overlaps
\* the survivor of that chain by more than half of the shorter, and starts
\* a chain of its own otherwise.
RECURSIVE ChainsFrom(_, _)
ChainsFrom(chains, rest) ==
  IF rest = <<>> THEN chains
  ELSE LET n == Len(chains)
       IN IF OverlapsMoreThanHalf(Survivor(chains[n]), Head(rest))
            THEN ChainsFrom([chains EXCEPT ![n] = Append(chains[n], Head(rest))],
                            Tail(rest))
            ELSE ChainsFrom(Append(chains, <<Head(rest)>>), Tail(rest))

\* C38: of the proposals merged into one, the one returned has a confidence
\* at least that of every one discarded, and of two of equal confidence the
\* one accepted earlier is kept; a step of the sweep that finds an overlap
\* replaces the last accepted proposal only by one of higher confidence.
C38_HigherConfidenceSurvives ==
  /\ []((mphase = "done" /\ msegs # <<>>) =>
          LET chains == ChainsFrom(<< <<sorted_segs[1]>> >>, Tail(sorted_segs))
          IN /\ Len(merged) = Len(chains)
             /\ \A k \in 1..Len(chains) :
                  /\ merged[k] = Survivor(chains[k])
                  /\ \A j \in 1..Len(chains[k]) :
                       merged[k].confidence >= chains[k][j].confidence)
  /\ [][(mphase = "sweep" /\ mphase' = "sweep"
           /\ OverlapsMoreThanHalf(merged[Len(merged)], sorted_segs[mi])) =>
          LET last == merged[Len(merged)]
              seg == sorted_segs[mi]
          IN /\ Len(merged') = Len(merged)
             /\ last.start_time <= seg.start_time
             /\ merged'[Len(merged')] =
                  IF seg.confidence > last.confidence THEN seg ELSE last]_vars

\* Three proposals merged into one: the second is discarded against the
\* first, of equal confidence, and the third, of higher confidence, replaces
\* the first.
C38_Witness ==
  /\ mphase = "done"
  /\ msegs = <<TopicSegment("topic", 0, 60, 8), TopicSegment("topic", 20, 80, 8),
               TopicSegment("topic", 20, 80, 9)>>
  /\ merged = <<TopicSegment("topic", 20, 80, 9)>>

\* Two overlapping proposals of equal confidence: the earlier one is kept.
C38_WitnessTie ==
  /\ mphase = "done"
  /\ msegs = <<TopicSegment("topic", 20, 80, 8), TopicSegment("topic", 0, 60, 8)>>
  /\ merged = <<TopicSegment("topic", 0, 60, 8)>>

\* C29: with a single chunk segment_topics returns the proposals of the
\* response as they came, in their order, merged or not; with several chunks
\* what it returns is what _merge_segments makes of the proposals collected:
\* in ascending start_time order, each one a proposal of a response.
C29_SingleChunkNotMerged ==
  gstatus = "returned" =>
    /\ nchunks = 1 =>
         /\ gret[1] = all_segments
         /\ \E a \in 1..MAX_RETRIES, n \in 0..MaxProps : gret[1] = ParsedTopics(1, a, n)
    /\ nchunks > 1 =>
         /\ gret[1] = MergeSegments(all_segments)
         /\ AscendingStart(gret[1])
         /\ \A i \in 1..Len(gret[1]) : Occurrences(all_segments, gret[1][i]) >= 1

\* One chunk, two proposals that overlap by two thirds, the later one first:
\* both are returned, in that order.
C29_Witness ==
  /\ gstatus = "returned"
  /\ nchunks = 1
  /\ Len(gret[1]) = 2
  /\ gret[1][1].start_time > gret[1][2].start_time
  /\ OverlapsMoreThanHalf(gret[1][1], gret[1][2])

\* Two chunks: the proposals were merged.
C29_WitnessMerged ==
  /\ gstatus = "returned"
  /\ nchunks = 2
  /\ Len(all_segments) = 4
  /\ Len(gret[1]) < 4

\* ---------------------------------------------------------------- validate.py
\* bisect_left(a, x, lo, hi): the binary search of the standard library.
RECURSIVE BisectLeftFrom(_, _, _, _)
BisectLeftFrom(a, x, lo, hi) ==
  IF lo < hi
    THEN LET mid == (lo + hi) \div 2
         IN IF a[mid + 1] < x
              THEN BisectLeftFrom(a, x, mid + 1, hi)
              ELSE BisectLeftFrom(a, x, lo, mid)
    ELSE lo

\* bisect_left(a, x): a 0-based position.
BisectLeft(a, x) == BisectLeftFrom(a, x, 0, Len(a))

\* On a tie the later boundary is returned.
FindNearestBoundaryTieLater(time, bs) ==
  IF bs = <<>> THEN time
  ELSE LET idx == BisectLeft(bs, time)
       IN IF idx = 0 THEN bs[1]
          ELSE IF idx = Len(bs) THEN bs[Len(bs)]
          ELSE IF (time - bs[idx]) < (bs[idx + 1] - time)
                 THEN bs[idx] ELSE bs[idx + 1]

\* _find_nearest_boundary(time, boundaries)
FindNearestBoundary(time, bs) ==
  IF bs = <<>> THEN time
  ELSE LET idx == BisectLeft(bs, time)
       IN IF idx = 0 THEN bs[1]
          ELSE IF idx = Len(bs) THEN bs[Len(bs)]
          ELSE LET before == bs[idx]
                   after == bs[idx + 1]
               IN IF (time - before) <= (after - time) THEN before ELSE after

\* sorted(s) of a set of numbers.
RECURSIVE Sorted(_)
Sorted(s) ==
  IF s = {} THEN <<>>
  ELSE LET least == CHOOSE x \in s : \A y \in s : x <= y
       IN <<least>> \o Sorted(s \ {least})

\* The boundaries and the times of tests/test_validate.py, and a few more
\* times: on a boundary, half way between two, and outside them.
BoundaryGrid == {0, 10, 20, 30, 100}
QueryTimes == {-5, 0, 5, 6, 10, 15, 16, 25, 50, 65, 100, 200}

BoundaryLists == { Sorted(s) : s \in SUBSET BoundaryGrid }

\* _find_nearest_boundary(time, boundaries) is called and returns.
NearestCall ==
  /\ nargs # <<>> /\ nret = <<>>
  /\ nret' = <<FindNearestBoundary(nargs[1], nargs[2])>>
  /\ UNCHANGED nargs
  /\ UNCHANGED notNearest

NearestInit ==
  /\ PipelineIdle /\ StoreIdle /\ SegmentIdle /\ ChunkIdle
  /\ MergeIdle /\ OverlapIdle /\ BuildIdle /\ ValidateIdle /\ ExtraIdle
  /\ nargs \in QueryTimes \X BoundaryLists
  /\ nret = <<>>

NearestNext == NearestCall

NearestSpec == NearestInit /\ [][NearestNext]_vars

\* The distance between two times.
Distance(x, y) == IF x >= y THEN x - y ELSE y - x

\* The values of a list.
Values(xs) == { xs[i] : i \in 1..Len(xs) }

\* C16: for a sorted list of boundaries and a time, _find_nearest_boundary
\* returns a boundary no farther from the time than any other, the smaller
\* of two equally near; the first one for a time before all, the last one
\* for a time after all; and the time itself when there is no boundary.
C16_NearestBoundary ==
  nret # <<>> =>
    LET time == nargs[1]
        bs == nargs[2]
        r == nret[1]
    IN IF bs = <<>> THEN r = time
       ELSE /\ r \in Values(bs)
            /\ \A b \in Values(bs) :
                 /\ Distance(r, time) <= Distance(b, time)
                 /\ Distance(r, time) = Distance(b, time) => r <= b
            /\ time < bs[1] => r = bs[1]
            /\ time > bs[Len(bs)] => r = bs[Len(bs)]

\* A time half way between two boundaries gets the smaller one.
C16_Witness ==
  /\ nargs = <<15, <<0, 10, 20, 30>> >>
  /\ nret = <<10>>

\* No boundary: the time comes back.
C16_WitnessEmpty ==
  /\ nargs = <<50, <<>> >>
  /\ nret = <<50>>

\* _SENTENCE_ENDINGS
SENTENCE_ENDINGS == {".", "!", "?"}

\* The characters str.strip() removes, as far as the word texts below use them.
Whitespace == {" ", "\t"}

\* str.lstrip()
RECURSIVE LStrip(_)
LStrip(text) ==
  IF text # <<>> /\ Head(text) \in Whitespace THEN LStrip(Tail(text)) ELSE text

\* str.rstrip()
RECURSIVE RStrip(_)
RStrip(text) ==
  IF text # <<>> /\ text[Len(text)] \in Whitespace
    THEN RStrip(SubSeq(text, 1, Len(text) - 1))
    ELSE text

\* The text is taken as it is.
StripNothing(text) == text

\* str.strip()
Strip(text) == RStrip(LStrip(text))

\* for segment in transcription.segments: for word in segment.words
RECURSIVE AllWords(_)
AllWords(segments) ==
  IF segments = <<>> THEN <<>>
  ELSE Head(segments).words \o AllWords(Tail(segments))

\* stripped and stripped[-1] in _SENTENCE_ENDINGS
EndsSentence(word) ==
  LET stripped == Strip(word.word)
  IN stripped # <<>> /\ stripped[Len(stripped)] \in SENTENCE_ENDINGS

\* _build_sentence_boundaries(transcription)
BuildSentenceBoundaries(transcription) ==
  LET words == AllWords(transcription.segments)
      boundaries == {0, transcription.duration}
                      \cup { words[i].end : i \in { j \in 1..Len(words) : EndsSentence(words[j]) } }
  IN Sorted(boundaries)

\* Words of a transcription: a text as its characters, and an end time.
MaxWords == 2
WordTexts ==
  { <<>>, <<" ">>, <<"a">>, <<"a", ".">>, <<"a", "!", " ">>, <<" ", "?", "\t">>,
    <<".", "a">>, <<"a", ".", " ", "a">> }
WordEnds == {0, 10, 20}
Durations == {20, 30}
TranscriptionWord == [word : WordTexts, end : WordEnds]
WordLists == UNION { [1..n -> TranscriptionWord] : n \in 0..MaxWords }

\* The transcriptions: the words in two segments, cut at any place.
TranscriptionResults ==
  { [segments |-> << [words |-> SubSeq(ws, 1, cut)],
                      [words |-> SubSeq(ws, cut + 1, Len(ws))] >>,
     duration |-> d] :
      <<ws, cut, d>> \in { x \in WordLists \X (0..MaxWords) \X Durations : x[2] <= Len(x[1]) } }

\* _build_sentence_boundaries(transcription) is called and returns.
BuildCall ==
  /\ bargs # <<>> /\ bret = <<>>
  /\ bret' = <<BuildSentenceBoundaries(bargs[1])>>
  /\ UNCHANGED bargs
  /\ UNCHANGED notBuild

BuildInit ==
  /\ PipelineIdle /\ StoreIdle /\ SegmentIdle /\ ChunkIdle
  /\ MergeIdle /\ OverlapIdle /\ NearestIdle /\ ValidateIdle /\ ExtraIdle
  /\ \E tr \in TranscriptionResults : bargs = <<tr>>
  /\ bret = <<>>

BuildNext == BuildCall

BuildSpec == BuildInit /\ [][BuildNext]_vars

\* The last character of the text that is not whitespace is a sentence
\* terminator.
LastCharIsTerminator(text) ==
  \E i \in 1..Len(text) :
    /\ text[i] \in SENTENCE_ENDINGS
    /\ \A j \in (i + 1)..Len(text) : text[j] \in Whitespace

\* Every value of the list is smaller than the next one.
StrictlyAscending(xs) == \A i \in 1..(Len(xs) - 1) : xs[i] < xs[i + 1]

\* C17: _build_sentence_boundaries returns a strictly ascending list whose
\* values are exactly 0, the duration of the transcription, and the end time
\* of every word whose last non-whitespace character is '.', '!' or '?'.
C17_SentenceBoundaries ==
  bret # <<>> =>
    LET tr == bargs[1]
        words == AllWords(tr.segments)
        ends == { words[i].end :
                    i \in { j \in 1..Len(words) : LastCharIsTerminator(words[j].word) } }
    IN /\ StrictlyAscending(bret[1])
       /\ Values(bret[1]) = {0, tr.duration} \cup ends

\* A terminator followed by whitespace counts, a terminator inside the word
\* does not, and an end time equal to the duration appears once.
C17_Witness ==
  /\ bargs # <<>>
  /\ AllWords(bargs[1].segments) =
       << [word |-> <<"a", "!", " ">>, end |-> 10], [word |-> <<"a", ".">>, end |-> 20] >>
  /\ bargs[1].duration = 20
  /\ bret = << <<0, 10, 20>> >>

\* ValidatedClip(index, title, start_time, end_time, duration, status); the
\* description and the key quotes are carried over and left out.
ValidatedClip(index, title, st, en, duration, clip_status) ==
  [index |-> index, title |-> title, start_time |-> st, end_time |-> en,
   duration |-> duration, status |-> clip_status]

\* The duration found before the cut is kept.
DurationBeforeCut(start, end, cut) == end - start

\* duration = end - start, once more after end was cut.
DurationAfterCut(start, end, cut) == cut - start

\* A clip of exactly the minimum is too short as well.
TooShortAtMinimum(duration, min_clip_duration) == duration <= min_clip_duration

\* if duration < config.min_clip_duration
TooShort(duration, min_clip_duration) == duration < min_clip_duration

\* The end is cut at start + max_clip_duration and not snapped again.
TruncatedEndNotSnapped(start, bs, max_clip_duration) == start + max_clip_duration

\* The re-snapped end is kept even when it is too far.
TruncatedEndKeepsSnap(start, bs, max_clip_duration) ==
  FindNearestBoundary(start + max_clip_duration, bs)

\* Too long -> truncate and re-snap: the end of a clip longer than the
\* maximum.
TruncatedEnd(start, bs, max_clip_duration) ==
  LET raw_end == start + max_clip_duration
      end == FindNearestBoundary(raw_end, bs)
  IN IF end - start > max_clip_duration
       THEN LET idx == BisectLeft(bs, raw_end)
            IN IF idx > 0 THEN bs[idx] ELSE end
       ELSE end

\* midpoint = (current.end_time + next_clip.start_time) / 2.0; the times of
\* clips are boundaries, which below are even numbers of seconds.
Midpoint(a, b) == (a + b) \div 2

\* The two boundaries around the midpoint are taken the other way round.
ResolveAtSwapped(midpoint, bs) ==
  LET mid_idx == BisectLeft(bs, midpoint)
  IN IF mid_idx > 0 /\ mid_idx < Len(bs)
       THEN <<bs[mid_idx + 1], bs[mid_idx]>>
       ELSE <<bs[1], bs[1]>>

\* The boundaries tried on each side of the midpoint: <<new_current_end,
\* new_next_start>>.
ResolveAt(midpoint, bs) ==
  LET mid_idx == BisectLeft(bs, midpoint)
  IN IF mid_idx > 0 /\ mid_idx < Len(bs)
       THEN <<bs[mid_idx], bs[mid_idx + 1]>>
       ELSE IF mid_idx = 0
         THEN <<bs[1], bs[1]>>
         ELSE <<bs[Len(bs)], bs[Len(bs)]>>

\* Two clips that touch are resolved as well.
ClipsOverlapOrTouch(current, next_clip) == current.end_time >= next_clip.start_time

\* if current.end_time > next_clip.start_time
ClipsOverlap(current, next_clip) == current.end_time > next_clip.start_time

\* The indices count from 0.
AssignIndicesFromZero(clips) ==
  [i \in 1..Len(clips) |-> [clips[i] EXCEPT !.index = i - 1]]

\* for i, clip in enumerate(clips): clips[i] = clip.model_copy(update={"index": i + 1})
AssignIndices(clips) ==
  [i \in 1..Len(clips) |-> [clips[i] EXCEPT !.index = i]]

\* The proposals validate_clips is given: spans that lie on boundaries and
\* spans that do not, and the one of test_validate_clips_skips_short.
MaxTopics == 3
ValidateSpans ==
  {<<0, 90>>, <<10, 100>>, <<20, 60>>, <<20, 50>>, <<4, 58>>, <<0, 5>>}
SpanLists == UNION { [1..n -> ValidateSpans] : n \in 0..MaxTopics }

\* The proposal at place i of the list is titled i.
TopicsOf(spans) ==
  [i \in 1..Len(spans) |-> TopicSegment(i, spans[i][1], spans[i][2], 10)]

\* A transcription whose sentences end at the given times.
Spoken(ends, duration) ==
  LET sentence == [i \in 1..Len(ends) |-> [word |-> <<"a", ".">>, end |-> ends[i]]]
  IN [segments |-> << [words |-> << [word |-> <<"a">>, end |-> 4] >> \o sentence] >>,
      duration |-> duration]

ValidateTranscriptions ==
  { Spoken(<<10, 20, 50, 60, 90>>, 100), Spoken(<<60>>, 100), Spoken(<<>>, 100) }

\* <<min_clip_duration, max_clip_duration>>: the defaults, and the maximum
\* lowered as in test_validate_clips_truncates_long.
DurationLimits == {<<30, 600>>, <<30, 60>>, <<30, 40>>}

ValidateArgs ==
  { [segments |-> TopicsOf(spans), transcription |-> tr,
     min_clip_duration |-> lim[1], max_clip_duration |-> lim[2]] :
      spans \in SpanLists, tr \in ValidateTranscriptions, lim \in DurationLimits }

\* boundaries = _build_sentence_boundaries(transcription); clips = []; skipped = 0
ValidateEntry ==
  /\ vphase = "called"
  /\ vboundaries' = BuildSentenceBoundaries(vargs[1].transcription)
  /\ vclips' = <<>>
  /\ vskipped' = 0
  /\ vi' = 1
  /\ vphase' = "snap"
  /\ UNCHANGED vargs
  /\ UNCHANGED notValidate

\* One round of "for seg in segments.segments": snap, skip or truncate, append.
ValidateSegment ==
  /\ vphase = "snap"
  /\ vi <= Len(vargs[1].segments)
  /\ LET seg == vargs[1].segments[vi]
         start == FindNearestBoundary(seg.start_time, vboundaries)
         end == FindNearestBoundary(seg.end_time, vboundaries)
     IN IF end <= start
          THEN /\ vskipped' = vskipped + 1
               /\ UNCHANGED vclips
          ELSE IF TooShort(end - start, vargs[1].min_clip_duration)
            THEN /\ vskipped' = vskipped + 1
                 /\ UNCHANGED vclips
            ELSE LET too_long == end - start > vargs[1].max_clip_duration
                     cut == IF too_long
                              THEN TruncatedEnd(start, vboundaries,
                                                vargs[1].max_clip_duration)
                              ELSE end
                     duration == IF too_long
                                   THEN DurationAfterCut(start, end, cut)
                                   ELSE end - start
                 IN /\ vclips' = Append(vclips,
                                   ValidatedClip(0, seg.title, start, cut,
                                                 duration, "pending"))
                    /\ UNCHANGED vskipped
  /\ vi' = vi + 1
  /\ UNCHANGED <<vphase, vargs, vboundaries>>
  /\ UNCHANGED notValidate

\* clips.sort(key=lambda c: c.start_time)
ValidateSort ==
  /\ vphase = "snap"
  /\ vi > Len(vargs[1].segments)
  /\ vclips' = SortedByStart(vclips)
  /\ vi' = 1
  /\ vphase' = "resolve"
  /\ UNCHANGED <<vargs, vboundaries, vskipped>>
  /\ UNCHANGED notValidate

\* One round of "for i in range(len(clips) - 1)": an overlap of clips[i] and
\* clips[i + 1] is cut at the boundaries around the midpoint, if both clips
\* keep a start before their end.
ValidateResolve ==
  /\ vphase = "resolve"
  /\ vi <= Len(vclips) - 1
  /\ LET current == vclips[vi]
         next_clip == vclips[vi + 1]
         at == ResolveAt(Midpoint(current.end_time, next_clip.start_time), vboundaries)
         new_current_end == at[1]
         new_next_start == at[2]
     IN IF /\ ClipsOverlap(current, next_clip)
           /\ new_current_end > current.start_time
           /\ new_next_start < next_clip.end_time
          THEN vclips' =
                 [vclips EXCEPT
                    ![vi] = [current EXCEPT
                               !.end_time = new_current_end,
                               !.duration = new_current_end - current.start_time],
                    ![vi + 1] = [next_clip EXCEPT
                                   !.start_time = new_next_start,
                                   !.duration = next_clip.end_time - new_next_start]]
          ELSE UNCHANGED vclips
  /\ vi' = vi + 1
  /\ UNCHANGED <<vphase, vargs, vboundaries, vskipped>>
  /\ UNCHANGED notValidate

\* Assign sequential indices starting at 1; return clips.
ValidateReturn ==
  /\ vphase = "resolve"
  /\ vi > Len(vclips) - 1
  /\ vclips' = AssignIndices(vclips)
  /\ vphase' = "done"
  /\ UNCHANGED <<vargs, vboundaries, vi, vskipped>>
  /\ UNCHANGED notValidate

ValidateInit ==
  /\ PipelineIdle /\ StoreIdle /\ SegmentIdle /\ ChunkIdle
  /\ MergeIdle /\ OverlapIdle /\ NearestIdle /\ BuildIdle /\ ExtraIdle
  /\ vphase = "called"
  /\ \E a \in ValidateArgs : vargs = <<a>>
  /\ vboundaries = <<>>
  /\ vclips = <<>>
  /\ vi = 0
  /\ vskipped = 0

ValidateNext ==
  \/ ValidateEntry
  \/ ValidateSegment
  \/ ValidateSort
  \/ ValidateResolve
  \/ ValidateReturn

ValidateSpec == ValidateInit /\ [][ValidateNext]_vars

\* validate_clips has returned vclips.
ValidateReturned == vphase = "done"

\* C18: the list validate_clips returns is in ascending start_time order.
C18_ReturnedInStartOrder ==
  ValidateReturned =>
    \A i \in 1..(Len(vclips) - 1) : vclips[i].start_time <= vclips[i + 1].start_time

\* C19: the clip at place i of the returned list has index i, and every
\* returned clip has status "pending".
C19_SequentialIndices ==
  ValidateReturned =>
    \A i \in 1..Len(vclips) :
      /\ vclips[i].index = i
      /\ vclips[i].status = "pending"

\* Three clips are returned, the second one after an overlap was resolved.
C19_Witness ==
  /\ ValidateReturned
  /\ Len(vclips) = 3
  /\ \E i \in 1..3 :
       vclips[i].start_time # vargs[1].segments[vclips[i].title].start_time

\* C20: every clip validate_clips returns starts before it ends.
C20_PositiveDuration ==
  ValidateReturned =>
    \A i \in 1..Len(vclips) : vclips[i].start_time < vclips[i].end_time

\* C21: every clip validate_clips returns lasts at least min_clip_duration.
C21_AtLeastMinimum ==
  ValidateReturned =>
    \A i \in 1..Len(vclips) : vclips[i].duration >= vargs[1].min_clip_duration

\* The boundary nearest to a time, the smaller of two equally near.
NearestOf(time, bs) ==
  CHOOSE r \in Values(bs) :
    \A b \in Values(bs) :
      /\ Distance(r, time) <= Distance(b, time)
      /\ Distance(r, time) = Distance(b, time) => r <= b

\* The boundary immediately before a boundary that is not the first one.
BoundaryBefore(b, bs) ==
  CHOOSE p \in Values(bs) : p < b /\ \A q \in Values(bs) : q < b => q <= p

\* The proposal handled next, snapped, is longer than the maximum.
SnapsTooLong ==
  /\ vphase = "snap"
  /\ vi <= Len(vargs[1].segments)
  /\ NearestOf(vargs[1].segments[vi].end_time, vboundaries)
       - NearestOf(vargs[1].segments[vi].start_time, vboundaries)
       > vargs[1].max_clip_duration

\* C22: every clip validate_clips returns lasts at most max_clip_duration;
\* a proposal that snapped is longer than the maximum gives exactly one clip,
\* from its snapped start to the boundary nearest start + max_clip_duration,
\* or to the boundary before that one when that one is too far.
C22_AtMostMaximum ==
  /\ [](ValidateReturned =>
          \A i \in 1..Len(vclips) : vclips[i].duration <= vargs[1].max_clip_duration)
  /\ [][SnapsTooLong =>
          LET seg == vargs[1].segments[vi]
              start == NearestOf(seg.start_time, vboundaries)
              near == NearestOf(start + vargs[1].max_clip_duration, vboundaries)
              end == IF near - start <= vargs[1].max_clip_duration
                       THEN near ELSE BoundaryBefore(near, vboundaries)
          IN vclips' = Append(vclips, ValidatedClip(0, seg.title, start, end,
                                                    end - start, "pending"))
       ]_vars

\* A proposal longer than the maximum was cut at the boundary before the
\* nearest one, and the clip was returned.
C22_Witness ==
  /\ ValidateReturned
  /\ vargs[1].max_clip_duration = 40
  /\ vboundaries = <<0, 10, 20, 50, 60, 90, 100>>
  /\ Len(vargs[1].segments) = 1
  /\ vargs[1].segments[1].start_time = 0 /\ vargs[1].segments[1].end_time = 90
  /\ Len(vclips) = 1
  /\ vclips[1].start_time = 0 /\ vclips[1].end_time = 20

\* The last boundary before a time and the first boundary not before it.
LastBefore(time, bs) ==
  CHOOSE p \in Values(bs) : p < time /\ \A q \in Values(bs) : q < time => q <= p
FirstNotBefore(time, bs) ==
  CHOOSE p \in Values(bs) : p >= time /\ \A q \in Values(bs) : q >= time => p <= q

\* Cutting the overlap of two adjacent clips at the boundaries around the
\* midpoint would leave one of them without a start before its end.
AdjustmentRejected(current, next_clip, bs) ==
  LET midpoint == Midpoint(current.end_time, next_clip.start_time)
  IN ~ /\ current.start_time < LastBefore(midpoint, bs)
       /\ FirstNotBefore(midpoint, bs) < next_clip.end_time

\* C23: in the list validate_clips returns, every clip ends no later than the
\* next one starts, unless cutting that pair was rejected; and once a pair has
\* been handled, the end of its first clip and the start of its second one
\* are not changed by the handling of a later pair.
C23_AdjacentPairsResolved ==
  /\ [](ValidateReturned =>
          \A i \in 1..(Len(vclips) - 1) :
            \/ vclips[i].end_time <= vclips[i + 1].start_time
            \/ AdjustmentRejected(vclips[i], vclips[i + 1], vboundaries))
  /\ [][vphase = "resolve" =>
          /\ Len(vclips') = Len(vclips)
          /\ \A j \in 1..(vi - 1) :
               /\ vclips'[j].end_time = vclips[j].end_time
               /\ vclips'[j + 1].start_time = vclips[j + 1].start_time
       ]_vars

\* Three clips are returned: the first pair was cut apart, and the cut of
\* the second pair was rejected.
C23_Witness ==
  /\ ValidateReturned
  /\ Len(vclips) = 3
  /\ vclips[1].end_time # vargs[1].segments[vclips[1].title].end_time
  /\ vclips[1].end_time < vclips[2].start_time
  /\ vclips[2].end_time > vclips[3].start_time

\* The proposal, snapped, has no start before its end, or is shorter than
\* the minimum.
Dropped(seg, bs, min_clip_duration) ==
  \/ NearestOf(seg.end_time, bs) <= NearestOf(seg.start_time, bs)
  \/ NearestOf(seg.end_time, bs) - NearestOf(seg.start_time, bs) < min_clip_duration

\* C30: validate_clips snaps the start and the end of a proposal each to its
\* nearest boundary; a proposal whose snapped end is not after its snapped
\* start, or whose snapped duration is below min_clip_duration, gives no
\* clip and is counted as skipped; every other proposal gives exactly one
\* clip, starting at its snapped start; so as many clips are returned as
\* there are proposals not dropped.
C30_SnapAndDrop ==
  /\ [](ValidateReturned =>
          LET kept == { i \in 1..Len(vargs[1].segments) :
                          ~Dropped(vargs[1].segments[i], vboundaries,
                                   vargs[1].min_clip_duration) }
          IN /\ Len(vclips) = Cardinality(kept)
             /\ vskipped = Len(vargs[1].segments) - Cardinality(kept)
             /\ \A i \in kept :
                  Cardinality({ k \in 1..Len(vclips) : vclips[k].title = i }) = 1)
  /\ [][(vphase = "snap" /\ vi <= Len(vargs[1].segments)) =>
          LET seg == vargs[1].segments[vi]
          IN IF Dropped(seg, vboundaries, vargs[1].min_clip_duration)
               THEN vclips' = vclips /\ vskipped' = vskipped + 1
               ELSE /\ Len(vclips') = Len(vclips) + 1
                    /\ SubSeq(vclips', 1, Len(vclips)) = vclips
                    /\ vclips'[Len(vclips')].title = seg.title
                    /\ vclips'[Len(vclips')].start_time =
                         NearestOf(seg.start_time, vboundaries)
                    /\ \/ vclips'[Len(vclips')].end_time =
                            NearestOf(seg.end_time, vboundaries)
                       \/ SnapsTooLong
                    /\ vskipped' = vskipped
       ]_vars

\* Of three proposals one snaps to less than the minimum and is dropped, one
\* snaps to exactly the minimum and one that is on no boundary snaps to more:
\* two clips are returned.
C30_Witness ==
  /\ ValidateReturned
  /\ vboundaries = <<0, 10, 20, 50, 60, 90, 100>>
  /\ Len(vargs[1].segments) = 3
  /\ vargs[1].segments[1].end_time = 5
  /\ vargs[1].segments[2].start_time = 20 /\ vargs[1].segments[2].end_time = 50
  /\ vargs[1].segments[3].start_time = 4
  /\ Len(vclips) = 2
  /\ vskipped = 1

\* C35: every start_time and end_time of a clip validate_clips holds or
\* returns is one of the boundaries built from the transcription, whether
\* it comes from snapping, from truncation or from overlap resolution.
C35_CutPointsAreBoundaries ==
  vphase \in {"snap", "resolve", "done"} =>
    /\ vboundaries = BuildSentenceBoundaries(vargs[1].transcription)
    /\ \A i \in 1..Len(vclips) :
         /\ \E k \in 1..Len(vboundaries) : vboundaries[k] = vclips[i].start_time
         /\ \E k \in 1..Len(vboundaries) : vboundaries[k] = vclips[i].end_time

\* A proposal from 4 s to 58 s, on no boundary, was snapped to 0-60 and then
\* cut back to 0-20 against the proposal after it, which now starts at 50.
C35_Witness ==
  /\ ValidateReturned
  /\ vboundaries = <<0, 10, 20, 50, 60, 90, 100>>
  /\ Len(vargs[1].segments) = 2
  /\ vargs[1].segments[1].start_time = 4 /\ vargs[1].segments[1].end_time = 58
  /\ Len(vclips) = 2
  /\ vclips[1].start_time = 0 /\ vclips[1].end_time = 20
  /\ vclips[2].start_time = 50 /\ vclips[2].end_time = 60

\* A proposal on no boundary that was too long was truncated to a boundary.
C35_WitnessTruncated ==
  /\ ValidateReturned
  /\ vboundaries = <<0, 10, 20, 50, 60, 90, 100>>
  /\ vargs[1].max_clip_duration = 40
  /\ Len(vargs[1].segments) = 1
  /\ vargs[1].segments[1].start_time = 4
  /\ Len(vclips) = 1
  /\ vclips[1].end_time = 20

\* The start and the end the clip made from proposal seg had after snapping
\* and truncation.
StartAfterSnap(seg) == NearestOf(seg.start_time, vboundaries)

EndAfterSnap(seg) ==
  LET start == NearestOf(seg.start_time, vboundaries)
      end == NearestOf(seg.end_time, vboundaries)
  IN IF end - start > vargs[1].max_clip_duration
       THEN TruncatedEnd(start, vboundaries, vargs[1].max_clip_duration)
       ELSE end

\* C40: overlap resolution only shrinks clips: a clip starts no earlier and
\* ends no later than it did after snapping and truncation; a clip that
\* overlapped neither the clip before it nor the clip after it in start
\* order keeps its start, end and duration; and a round of the resolution
\* changes nothing unless the two clips it looks at overlap.
C40_ResolutionOnlyShrinks ==
  /\ [](vphase \in {"resolve", "done"} =>
          \A k \in 1..Len(vclips) :
            LET seg == vargs[1].segments[vclips[k].title]
                st == StartAfterSnap(seg)
                en == EndAfterSnap(seg)
                before_ok ==
                  k = 1 \/ EndAfterSnap(vargs[1].segments[vclips[k - 1].title]) <= st
                after_ok ==
                  k = Len(vclips)
                    \/ en <= StartAfterSnap(vargs[1].segments[vclips[k + 1].title])
            IN /\ vclips[k].start_time >= st
               /\ vclips[k].end_time <= en
               /\ (before_ok /\ after_ok) =>
                    /\ vclips[k].start_time = st
                    /\ vclips[k].end_time = en
                    /\ vclips[k].duration = en - st)
  /\ [][(vphase = "resolve" /\ vi <= Len(vclips) - 1) =>
          /\ Len(vclips') = Len(vclips)
          /\ \A k \in 1..Len(vclips) :
               /\ vclips'[k].start_time >= vclips[k].start_time
               /\ vclips'[k].end_time <= vclips[k].end_time
               /\ k \notin {vi, vi + 1} => vclips'[k] = vclips[k]
          /\ vclips[vi].end_time <= vclips[vi + 1].start_time => vclips' = vclips
       ]_vars

\* Two clips, 0-90 and 10-100, were cut back to 0-20 and 50-100.
C40_Witness ==
  /\ ValidateReturned
  /\ vboundaries = <<0, 10, 20, 50, 60, 90, 100>>
  /\ vargs[1].max_clip_duration = 600
  /\ Len(vargs[1].segments) = 2
  /\ vargs[1].segments[1].end_time = 90 /\ vargs[1].segments[2].start_time = 10
  /\ Len(vclips) = 2
  /\ vclips[1].start_time = 0 /\ vclips[1].end_time = 20 /\ vclips[1].duration = 20
  /\ vclips[2].start_time = 50 /\ vclips[2].end_time = 100 /\ vclips[2].duration = 50

\* Two clips that touch at 20 s, the first one truncated: both are returned
\* as they were.
C40_WitnessTouching ==
  /\ ValidateReturned
  /\ vboundaries = <<0, 10, 20, 50, 60, 90, 100>>
  /\ vargs[1].max_clip_duration = 40
  /\ Len(vclips) = 2
  /\ vclips[1].start_time = 0 /\ vclips[1].end_time = 20 /\ vclips[1].duration = 20
  /\ vclips[2].start_time = 20 /\ vclips[2].end_time = 60 /\ vclips[2].duration = 40

\* ---------------------------------------------------------------- review.py
\* str.lower(), for the letters the answers below use.
Lower(text) ==
  [i \in 1..Len(text) |->
     CASE text[i] = "A" -> "a"
       [] text[i] = "N" -> "n"
       [] text[i] = "Y" -> "y"
       [] OTHER -> text[i]]

\* The capitals are kept.
AnswerAsTyped(typed) == Strip(typed)

\* input(...).strip().lower()
Answer(typed) == Lower(Strip(typed))

\* str.split(sep), reading the text from its end: the parts before the last
\* separator, then the last part.
RECURSIVE Split(_, _)
Split(text, sep) ==
  IF text = <<>> THEN << <<>> >>
  ELSE LET before == Split(SubSeq(text, 1, Len(text) - 1), sep)
           last == text[Len(text)]
       IN IF last = sep
            THEN Append(before, <<>>)
            ELSE [before EXCEPT ![Len(before)] = Append(@, last)]

DigitValue(ch) ==
  CASE ch = "0" -> 0 [] ch = "1" -> 1 [] ch = "2" -> 2 [] ch = "3" -> 3
    [] ch = "4" -> 4 [] ch = "5" -> 5 [] ch = "6" -> 6 [] ch = "7" -> 7
    [] ch = "8" -> 8 [] ch = "9" -> 9

DecimalDigits == {"0", "1", "2", "3", "4", "5", "6", "7", "8", "9"}

RECURSIVE DigitsValue(_)
DigitsValue(digits) ==
  IF digits = <<>> THEN 0
  ELSE 10 * DigitsValue(SubSeq(digits, 1, Len(digits) - 1))
         + DigitValue(digits[Len(digits)])

\* int(s) for whitespace, an optional sign and decimal digits: <<value>>, or
\* <<>> for ValueError.
ParseInt(part) ==
  LET stripped == Strip(part)
      signed == stripped # <<>> /\ stripped[1] \in {"-", "+"}
      digits == IF signed THEN Tail(stripped) ELSE stripped
  IN IF digits = <<>> \/ \E i \in 1..Len(digits) : digits[i] \notin DecimalDigits
       THEN <<>>
       ELSE IF signed /\ stripped[1] = "-"
         THEN <<0 - DigitsValue(digits)>>
         ELSE <<DigitsValue(digits)>>

\* The seconds of the time are not limited to 0..59.
ParseTimeAnySeconds(time_str) ==
  LET parts == Split(Strip(time_str), ":")
  IN IF Len(parts) # 2 THEN <<>>
     ELSE IF ParseInt(parts[1]) = <<>> \/ ParseInt(parts[2]) = <<>> THEN <<>>
     ELSE <<ParseInt(parts[1])[1] * 60 + ParseInt(parts[2])[1]>>

\* _parse_time(time_str): <<seconds>>, or <<>> for ValueError.
ParseTime(time_str) ==
  LET parts == Split(Strip(time_str), ":")
  IN IF Len(parts) # 2 THEN <<>>
     ELSE IF ParseInt(parts[1]) = <<>> \/ ParseInt(parts[2]) = <<>> THEN <<>>
     ELSE LET minutes == ParseInt(parts[1])[1]
              seconds == ParseInt(parts[2])[1]
          IN IF minutes < 0 \/ seconds < 0 \/ seconds >= 60
               THEN <<>>
               ELSE <<minutes * 60 + seconds>>

\* What the reviewer types at "> ", at "New title: ", at "New start (MM:SS): "
\* or "New end (MM:SS): ", and at "Proceed with extraction? (y/n): ".
ChoicesTyped ==
  { <<"a">>, <<"A", " ">>, <<"r">>, <<"t">>, <<"s">>, <<"e">>, <<"d">>, <<"x">>, <<>> }
TitlesTyped == { <<>>, <<" ">>, <<"n", "e", "w", " ">> }
TimesTyped ==
  { <<" ", "1", ":", "3", "0">>, <<"0", ":", "6", "0">>, <<"1", ":", "7", "5">>,
    <<"9", "0">>, <<"1", ":", "2", ":", "3">>, <<"a", ":", "b">>,
    <<"-", "1", ":", "1", "0">>, <<>> }
ConfirmsTyped == { <<"y">>, <<"n">>, <<"N", " ">>, <<"n", "o">>, <<>> }

\* The lists review_clips is given: clip k of a list runs from 60(k-1) to
\* 60k seconds. They come from validate_clips, or from a checkpoint of it.
MaxReview == 2
ReviewClip(k, clip_status) ==
  ValidatedClip(k, <<"o", "l", "d">>, 60 * (k - 1), 60 * k, 60, clip_status)
ReviewLists ==
  UNION { { [k \in 1..n |-> ReviewClip(k, "pending")],
            [k \in 1..n |-> ReviewClip(k, IF k = 1 THEN "rejected" ELSE "pending")] } :
          n \in 0..MaxReview }
ReviewArgs == [clips : ReviewLists, skip_review : BOOLEAN]

\* The statuses are left as they are.
ApproveNone(clips) == clips

\* for clip in clips: clip.status = "approved"
ApproveAll(clips) ==
  [i \in 1..Len(clips) |-> [clips[i] EXCEPT !.status = "approved"]]

\* Every clip that is not pending is kept.
KeepDecided(clips) == SelectSeq(clips, LAMBDA c : c.status # "pending")

\* [clip for clip in clips if clip.status == "approved"]
KeepApproved(clips) == SelectSeq(clips, LAMBDA c : c.status = "approved")

\* for clip in clips: if clip.status == "pending": clip.status = "approved"
ApprovePending(clips) ==
  [i \in 1..Len(clips) |->
     IF clips[i].status = "pending"
       THEN [clips[i] EXCEPT !.status = "approved"]
       ELSE clips[i]]

\* if config.skip_review: every clip is approved and the list is returned.
ReviewSkip ==
  /\ rphase = "called"
  /\ rargs[1].skip_review
  /\ rclips' = ApproveAll(rclips)
  /\ rret' = <<ApproveAll(rclips)>>
  /\ rphase' = "done"
  /\ UNCHANGED <<rargs, ri, rtyped>>
  /\ UNCHANGED notReview

\* The outer for loop starts; with no clip it ends at once.
ReviewEnter ==
  /\ rphase = "called"
  /\ ~rargs[1].skip_review
  /\ ri' = 1
  /\ rphase' = IF rclips = <<>> THEN "summary" ELSE "clip"
  /\ UNCHANGED <<rargs, rclips, rret, rtyped>>
  /\ UNCHANGED notReview

\* After a break of the inner loop: the next clip, or the summary.
NextClip ==
  /\ ri' = ri + 1
  /\ rphase' = IF ri + 1 > Len(rclips) THEN "summary" ELSE "clip"

\* choice == "a" or choice == "r"
ReviewDecide(typed) ==
  /\ rphase = "clip"
  /\ Answer(typed) \in { <<"a">>, <<"r">> }
  /\ rclips' = [rclips EXCEPT ![ri].status =
                  IF Answer(typed) = <<"a">> THEN "approved" ELSE "rejected"]
  /\ NextClip
  /\ UNCHANGED <<rargs, rret, rtyped>>
  /\ UNCHANGED notReview

\* choice == "t"
ReviewEditTitle(typed, title_typed) ==
  /\ rphase = "clip"
  /\ Answer(typed) = <<"t">>
  /\ rclips' = IF Strip(title_typed) # <<>>
                 THEN [rclips EXCEPT ![ri].title = Strip(title_typed)]
                 ELSE rclips
  /\ UNCHANGED <<rphase, rargs, ri, rret, rtyped>>
  /\ UNCHANGED notReview

\* The duration is left as it was.
EditedDurationStale(clip, st, en) == clip.duration

\* clip.duration = clip.end_time - clip.start_time
EditedDuration(clip, st, en) == en - st

\* choice == "s"
ReviewEditStart(typed, time_typed) ==
  /\ rphase = "clip"
  /\ Answer(typed) = <<"s">>
  /\ LET parsed == ParseTime(Strip(time_typed))
     IN rclips' = IF parsed # <<>>
                    THEN [rclips EXCEPT
                            ![ri].start_time = parsed[1],
                            ![ri].duration =
                               EditedDuration(rclips[ri], parsed[1], rclips[ri].end_time)]
                    ELSE rclips
  /\ UNCHANGED <<rphase, rargs, ri, rret, rtyped>>
  /\ UNCHANGED notReview

\* choice == "e"
ReviewEditEnd(typed, time_typed) ==
  /\ rphase = "clip"
  /\ Answer(typed) = <<"e">>
  /\ LET parsed == ParseTime(Strip(time_typed))
     IN rclips' = IF parsed # <<>>
                    THEN [rclips EXCEPT
                            ![ri].end_time = parsed[1],
                            ![ri].duration =
                               EditedDuration(rclips[ri], rclips[ri].start_time, parsed[1])]
                    ELSE rclips
  /\ UNCHANGED <<rphase, rargs, ri, rret, rtyped>>
  /\ UNCHANGED notReview

\* choice == "d": both loops end.
ReviewStop(typed) ==
  /\ rphase = "clip"
  /\ Answer(typed) = <<"d">>
  /\ rphase' = "summary"
  /\ UNCHANGED <<rargs, rclips, ri, rret, rtyped>>
  /\ UNCHANGED notReview

\* Any other choice: "Invalid option", and the clip is shown again.
ReviewInvalid(typed) ==
  /\ rphase = "clip"
  /\ Answer(typed) \notin { <<"a">>, <<"r">>, <<"t">>, <<"s">>, <<"e">>, <<"d">> }
  /\ UNCHANGED rvars
  /\ UNCHANGED notReview

\* input() raises: Ctrl-C or the end of the input.
ReviewInputRaises ==
  /\ rphase \in {"clip", "summary"}
  /\ rphase' = "raised"
  /\ UNCHANGED <<rargs, rclips, ri, rret, rtyped>>
  /\ UNCHANGED notReview

\* confirm == "n": raise SystemExit.
ReviewCancel(typed) ==
  /\ rphase = "summary"
  /\ Answer(typed) = <<"n">>
  /\ rphase' = "cancelled"
  /\ rtyped' = <<typed>>
  /\ UNCHANGED <<rargs, rclips, ri, rret>>
  /\ UNCHANGED notReview

\* Any other answer: pending clips are approved, the approved ones returned.
ReviewReturn(typed) ==
  /\ rphase = "summary"
  /\ Answer(typed) # <<"n">>
  /\ rclips' = ApprovePending(rclips)
  /\ rret' = <<KeepApproved(ApprovePending(rclips))>>
  /\ rphase' = "done"
  /\ rtyped' = <<typed>>
  /\ UNCHANGED <<rargs, ri>>
  /\ UNCHANGED notReview

ReviewInit ==
  /\ PipelineIdle /\ StoreIdle /\ SegmentIdle /\ ChunkIdle
  /\ MergeIdle /\ OverlapIdle /\ NearestIdle /\ BuildIdle /\ ValidateIdle
  /\ rphase = "called"
  /\ \E a \in ReviewArgs : rargs = <<a>> /\ rclips = a.clips
  /\ ri = 0
  /\ rret = <<>>
  /\ rtyped = <<>>

ReviewNext ==
  \/ ReviewSkip
  \/ ReviewEnter
  \/ \E typed \in ChoicesTyped : ReviewDecide(typed)
  \/ \E typed \in ChoicesTyped, title_typed \in TitlesTyped :
       ReviewEditTitle(typed, title_typed)
  \/ \E typed \in ChoicesTyped, time_typed \in TimesTyped :
       ReviewEditStart(typed, time_typed)
  \/ \E typed \in ChoicesTyped, time_typed \in TimesTyped :
       ReviewEditEnd(typed, time_typed)
  \/ \E typed \in ChoicesTyped : ReviewStop(typed)
  \/ \E typed \in ChoicesTyped : ReviewInvalid(typed)
  \/ ReviewInputRaises
  \/ \E typed \in ConfirmsTyped : ReviewCancel(typed)
  \/ \E typed \in ConfirmsTyped : ReviewReturn(typed)

ReviewSpec == ReviewInit /\ [][ReviewNext]_vars

\* validate_clips, or review_clips, called on its own.
ClipsSpec ==
  (ValidateInit \/ ReviewInit) /\ [][ValidateNext \/ ReviewNext]_vars

\* C24: duration = end_time - start_time for every clip validate_clips
\* returns, and for every clip under review after each edit of a start or an
\* end, and for every clip review_clips returns.
C24_DurationIsEndMinusStart ==
  /\ ValidateReturned =>
       \A i \in 1..Len(vclips) :
         vclips[i].duration = vclips[i].end_time - vclips[i].start_time
  /\ \A i \in 1..Len(rclips) :
       rclips[i].duration = rclips[i].end_time - rclips[i].start_time
  /\ rret # <<>> =>
       \A i \in 1..Len(rret[1]) :
         rret[1][i].duration = rret[1][i].end_time - rret[1][i].start_time

\* The reviewer has moved the end of the first clip and the start of the
\* second one to 1:30.
C24_Witness ==
  /\ rphase = "clip"
  /\ ri = 2
  /\ rclips[1].end_time = 90 /\ rclips[1].duration = 90
  /\ rclips[2].start_time = 90 /\ rclips[2].duration = 30

\* A truncated clip and a clip cut by overlap resolution are returned.
C24_WitnessValidate ==
  /\ ValidateReturned
  /\ vargs[1].max_clip_duration = 60
  /\ Len(vclips) = 2
  /\ vclips[1].end_time < vclips[2].start_time
  /\ vclips[1].end_time # vargs[1].segments[vclips[1].title].end_time
  /\ vclips[2].duration = vclips[2].end_time - vclips[2].start_time

\* The clip with its status set to "approved".
Approved1(c) == [c EXCEPT !.status = "approved"]

\* The answer is n or N, with or without blanks around it.
Declined(typed) ==
  \E i \in 1..Len(typed) :
    /\ typed[i] \in {"n", "N"}
    /\ \A j \in 1..Len(typed) : j # i => typed[j] \in Whitespace

\* C26: every clip review_clips returns is approved. With skip_review the
\* list returned is the list given, every clip approved. Otherwise, when the
\* reviewer confirms, the clips not rejected are returned in their order,
\* approved; when the reviewer answers n, review_clips raises and returns
\* nothing.
C26_OnlyApprovedReturned ==
  /\ [](rret # <<>> => \A i \in 1..Len(rret[1]) : rret[1][i].status = "approved")
  /\ []((rret # <<>> /\ rargs[1].skip_review) =>
          /\ Len(rret[1]) = Len(rargs[1].clips)
          /\ \A i \in 1..Len(rret[1]) : rret[1][i] = Approved1(rargs[1].clips[i]))
  /\ [](rphase \in {"cancelled", "raised"} => rret = <<>>)
  /\ []((rtyped # <<>>) => (Declined(rtyped[1]) <=> rphase = "cancelled"))
  /\ [][(rphase = "summary" /\ rphase' = "done") =>
          LET kept == { i \in 1..Len(rclips) : rclips[i].status # "rejected" }
          IN /\ Len(rret'[1]) = Cardinality(kept)
             /\ \A i \in kept :
                  rret'[1][Cardinality({ j \in kept : j <= i })] = Approved1(rclips[i])
       ]_vars

\* The reviewer rejected the first clip, stopped at the second, and
\* confirmed: the second clip alone is returned.
C26_Witness ==
  /\ rphase = "done"
  /\ ~rargs[1].skip_review
  /\ Len(rclips) = 2
  /\ rclips[1].status = "rejected"
  /\ rargs[1].clips[1].status = "pending"
  /\ ri = 2
  /\ Len(rret[1]) = 1
  /\ rret[1][1].index = 2

\* The reviewer answered N: nothing is returned.
C26_WitnessCancelled ==
  /\ rphase = "cancelled"
  /\ rtyped = << <<"N", " ">> >>
  /\ rret = <<>>

\* skip_review: both clips come back approved.
C26_WitnessSkip ==
  /\ rphase = "done"
  /\ rargs[1].skip_review
  /\ Len(rret[1]) = 2

\* ---------------------------------------------------------------- reading the log
\* The events logged in this run, as a set.
Events == { log[i] : i \in 1..Len(log) }

HasEvent(s, e) == <<s, e>> \in Events

CountEvent(s, e) == Cardinality({ i \in 1..Len(log) : log[i] = <<s, e>> })

IsVisit(ev) == ev[2] \in {"skip", "exec"}

Visits == SelectSeq(log, IsVisit)

Skipped(s) == HasEvent(s, "skip")
Executed(s) == HasEvent(s, "exec")

\* The stage handler of s has returned normally.
Finished(s) == HasEvent(s, "skip") \/ HasEvent(s, "save")

\* ---------------------------------------------------------------- C1
\* C1: run() visits the stages in the order AUDIO .. MANIFEST, each at most
\* once; a stage is visited right after its predecessor's handler returned
\* (skipped, or saved its checkpoint), with nothing in between; a run that
\* returns has visited all seven.
C1_FixedOrder ==
  LET visits == Visits IN
  /\ \A i \in 1..Len(visits) : visits[i][1] = i
  /\ \A i \in 1..Len(log) :
       (IsVisit(log[i]) /\ log[i][1] > AUDIO) =>
         /\ i > 1
         /\ log[i - 1][1] = log[i][1] - 1
         /\ log[i - 1][2] \in {"skip", "save"}
  /\ status = "done" =>
       /\ Len(visits) = 7
       /\ \A s \in Stages : Finished(s)

C1_Witness ==
  /\ status = "done"
  /\ Executed(AUDIO) /\ Executed(MANIFEST)
  /\ Len(Visits) = 7

\* ---------------------------------------------------------------- C2
\* The stored payload a skipped stage's return value was made from.
Verbatim(s, d) ==
  CASE s = EXTRACT -> StrPaths(Out(s)) = d.paths
    [] s = MANIFEST -> Out(s) = "None"
    [] OTHER -> StagePayload(s, Out(s), <<>>) = d

\* C2: a visited stage is skipped exactly when resume is on and the stage
\* had a well-formed checkpoint; a skipped stage runs no logic, calls no
\* collaborator and returns the stored payload; without resume, or with
\* resume and no checkpoint, a visited stage executes.
C2_SkipIffResumeAndCheckpoint ==
  LET ev == Events IN
  \A s \in Stages :
    LET skipped == <<s, "skip">> \in ev
        executed == <<s, "exec">> \in ev
    IN /\ (skipped \/ executed) =>
            (skipped <=> (resume /\ ckpt0[s].kind = "valid"))
       /\ skipped =>
            /\ ~executed
            /\ <<s, "call">> \notin ev
            /\ <<s, "save">> \notin ev
            /\ arg[s] = <<>>
            /\ ckpt[s].kind = "valid"
            /\ Verbatim(s, ckpt[s].data)
       /\ ((executed \/ skipped) /\ ~resume) => executed
       /\ ((executed \/ skipped) /\ resume /\ ckpt0[s].kind = "absent") =>
            executed

\* A run without resume executes a stage that has a checkpoint, and a run
\* with resume skips one and returns a payload an earlier run stored.
C2_Witness ==
  /\ resume
  /\ Skipped(TRANSCRIBE)
  /\ Out(TRANSCRIBE) = Model("TranscriptionResult", 1)
  /\ runs = 2
  /\ Executed(SEGMENT)

\* ---------------------------------------------------------------- C3
\* C3: a stage's checkpoint is written in a run only after the stage's
\* logic has produced its result and before the next stage begins, so when
\* a stage is about to begin every earlier stage has a checkpoint; within
\* a run the only step that changes the file of a stage is that save.
C3_CheckpointBeforeNext ==
  /\ [](LET ev == Events IN
          \A s \in Stages :
            LET saved_now == <<s, "save">> \in ev
                executed == <<s, "exec">> \in ev
            IN /\ saved_now => (executed /\ out[s] # <<>>)
               /\ (executed /\ pc > s) => saved_now)
  /\ []((status = "running" /\ phase = "check") =>
          \A s \in Stages : s < pc => ckpt[s].kind = "valid")
  /\ [][\A s \in Stages :
         (status # "idle" /\ ckpt'[s] # ckpt[s]) =>
           /\ pc = s /\ phase = "save" /\ out[s] # <<>>
           /\ log' = Append(log, <<s, "save">>)
           /\ pc' # s \/ status' = "done"]_vars

C3_Witness ==
  /\ status = "running" /\ phase = "check" /\ pc = VALIDATE
  /\ Executed(SEGMENT)
  /\ ckpt[SEGMENT].kind = "valid" /\ ckpt0[SEGMENT].kind = "absent"

\* ---------------------------------------------------------------- C4
\* The run ended because the logic of stage pc raised.
LogicFailed == status = "failed" /\ phase = "logic"

\* C4: when a stage's logic fails no later stage is visited, the failing
\* stage and the later ones get no checkpoint, the logic was called once,
\* and the step that fails leaves every checkpoint as it was.
C4_FailureAborts ==
  /\ [](LogicFailed =>
         /\ \A s \in Stages : s > pc => ~Skipped(s) /\ ~Executed(s)
         /\ \A s \in Stages :
              s >= pc => (~HasEvent(s, "save") /\ ckpt[s].kind = ckpt0[s].kind)
         /\ CountEvent(pc, "call") = 1
         /\ CountEvent(pc, "exec") = 1)
  /\ [][(status' = "failed" \/ status = "failed") => ckpt' = ckpt]_vars

C4_Witness ==
  /\ LogicFailed /\ pc = SEGMENT
  /\ HasEvent(TRANSCRIBE, "save")
  /\ ckpt[TRANSCRIBE].kind = "valid" /\ ckpt[SEGMENT].kind = "absent"

\* ---------------------------------------------------------------- C5
\* C5: with resume on, a stage whose checkpoint file does not parse is
\* handled like a stage without a checkpoint: the run does not end on the
\* read.
C5_UnreadableIsAbsent ==
  (resume /\ status # "idle" /\ ckpt0[pc].kind = "corrupt") =>
    ~(status = "failed" /\ phase = "check")

\* ---------------------------------------------------------------- C7
\* The directory holds checkpoints for exactly the stages before k.
PrefixDir(dir, k) ==
  \A s \in Stages :
    /\ s < k => dir[s].kind = "valid"
    /\ s >= k => dir[s].kind = "absent"

\* The run was aborted while the logic of stage pc was executing.
AbortedInLogic == status \in {"failed", "interrupted"} /\ phase = "logic"

C25_WitnessFailed ==
  /\ status = "failed"
  /\ err = "SegmentationError"
  /\ ExitStatus = 1

C25_WitnessUncaught ==
  /\ status = "failed"
  /\ err = "JSONDecodeError"
  /\ ExitStatus = 1

\* ---------------------------------------------------------------- C31
\* C31: the extraction collaborator is only ever given approved clips, the
\* approved ones of what the REVIEW handler returned, and at least one;
\* with no approved clip it is not called and the stage saves a checkpoint
\* with extracted 0 and no paths; a checkpoint saved after a call holds the
\* number of approved clips and one path for each.
C31_OnlyApprovedExtracted ==
  /\ [](LET ev == Events IN
          /\ arg[EXTRACT] # <<>> =>
               /\ <<EXTRACT, "call">> \in ev
               /\ arg[EXTRACT][1] # <<>>
               /\ arg[EXTRACT][1] = Approved(Out(REVIEW))
               /\ \A i \in 1..Len(arg[EXTRACT][1]) :
                    arg[EXTRACT][1][i].fields.status = "approved"
          /\ (<<EXTRACT, "call">> \in ev) => arg[EXTRACT] # <<>>
          /\ (<<EXTRACT, "save">> \in ev) =>
               LET d == ckpt[EXTRACT].data
                   approved == SelectSeq(Out(REVIEW),
                                 LAMBDA c : c.fields.status = "approved")
               IN /\ d.extracted = Len(approved)
                  /\ Len(d.paths) = Len(approved)
                  /\ approved = <<>> =>
                       /\ <<EXTRACT, "call">> \notin ev
                       /\ d = [extracted |-> 0, paths |-> <<>>]
                  /\ approved # <<>> => <<EXTRACT, "call">> \in ev)
  /\ [][(status = "running" /\ pc = EXTRACT /\ phase = "logic"
           /\ Approved(Out(REVIEW)) = <<>>) =>
          (phase' = "save" /\ status' = "running" /\ arg' = arg
             /\ log' = log)]_vars

\* The reviewer approved one clip: it was extracted and its path saved.
C31_Witness ==
  /\ HasEvent(EXTRACT, "save")
  /\ HasEvent(REVIEW, "call")
  /\ HasEvent(EXTRACT, "call")
  /\ Len(arg[EXTRACT][1]) = 1
  /\ ckpt[EXTRACT].data.extracted = 1
  /\ Len(ckpt[EXTRACT].data.paths) = 1

\* The reviewer approved none of the one clip it was shown: the stage
\* completed without a call.
C31_WitnessNone ==
  /\ HasEvent(EXTRACT, "save")
  /\ HasEvent(REVIEW, "call")
  /\ Len(arg[REVIEW][1]) = 1
  /\ Out(REVIEW) = <<>>
  /\ arg[EXTRACT] = <<>>
  /\ ckpt[EXTRACT].data = [extracted |-> 0, paths |-> <<>>]
  /\ pc = MANIFEST

\* ---------------------------------------------------------------- C32
\* A step of the run under way: of a stage handler, or the outcome of the
\* collaborator call it is waiting for.
RunStep ==
  \/ \E s \in Stages : SkipStage(s)
  \/ \E s \in Stages : EnterStage(s)
  \/ \E s \in Stages : CheckpointUnreadable(s)
  \/ NothingToExtract
  \/ \E s \in Stages : CollaboratorReturns(s)
  \/ \E s \in Stages : CollaboratorRaises(s)
  \/ \E s \in Stages : Interrupt(s)
  \/ \E s \in Stages : SaveStage(s)

\* The checkpoint files a run that returned at time 0 left: it validated n
\* clips, of which the reviewer approved those in keep.
EarlierRun(n, keep) ==
  LET clips == [i \in 1..n |-> Clip(i, "pending")]
      approved == SelectSeq([i \in 1..n |-> Clip(i, "approved")],
                            LAMBDA c : c.fields.index \in keep)
      paths == [i \in 1..Len(approved) |-> ExtractPath(approved[i])]
      result == <<Path("audio.wav"), Model("TranscriptionResult", 0),
                  Model("SegmentationResult", 0), clips, approved, paths,
                  Path("manifest.json")>>
  IN [s \in Stages |->
        CheckpointFile(s, StagePayload(s, result[s], approved), 0)]

EarlierRuns == { EarlierRun(n, keep) : n \in 0..MaxClips, keep \in SUBSET (1..MaxClips) }

\* What is left of them when a run starts: the files of the stages before
\* one (the earlier run was aborted there), all but the file of one stage
\* (deleted since), or all with one that no longer parses.
Directories ==
  { [s \in Stages |-> IF s < k THEN full[s] ELSE Absent] :
      full \in EarlierRuns, k \in 1..(MANIFEST + 1) }
  \cup { [full EXCEPT ![s] = k] :
           full \in EarlierRuns, s \in Stages, k \in {Absent, Corrupt} }

\* One run of the pipeline on such a directory.
OneRunInit ==
  /\ ckpt \in Directories
  /\ ckpt0 = Listing(ckpt)
  /\ resume = FALSE
  /\ status = "idle"
  /\ pc = AUDIO
  /\ phase = "check"
  /\ out = NoOut
  /\ arg = NoOut
  /\ log = <<>>
  /\ err = "none"
  /\ runs = 0
  /\ tampers = 0
  /\ StoreIdle
  /\ SegmentIdle
  /\ ChunkIdle
  /\ FunctionsIdle

OneRunNext ==
  \/ \E r \in BOOLEAN : StartRun(r)
  \/ RunStep

OneRunSpec == OneRunInit /\ [][OneRunNext]_vars

\* The interpreter keeps executing the handlers, every collaborator call
\* comes back (returning or raising) and the reviewer finishes.
OneRunFairSpec == OneRunSpec /\ WF_vars(RunStep)

RunEnded == status \in {"done", "failed", "interrupted"}

\* C32: with every collaborator call coming back, a run that has started
\* ends: it returns after the MANIFEST handler has, or it is aborted in the
\* stage that raised, with no later stage visited; while it runs it moves
\* from a stage to the next one only, and no stage is entered twice.
C32_RunTerminates ==
  /\ (status = "running") ~> RunEnded
  /\ [](status = "done" => (pc = MANIFEST /\ Finished(MANIFEST)))
  /\ [](status \in {"failed", "interrupted"} =>
          /\ err # "none"
          /\ ~Finished(pc)
          /\ \A s \in Stages : s < pc => Finished(s)
          /\ \A s \in Stages : s > pc => ~Skipped(s) /\ ~Executed(s))
  /\ [](\A s \in Stages : CountEvent(s, "skip") + CountEvent(s, "exec") <= 1)
  /\ [][(status = "running" /\ status' = "running") =>
          (pc' = pc \/ (/\ pc' = pc + 1
                        /\ log'[Len(log')] \in {<<pc, "skip">>, <<pc, "save">>}))]_vars
  /\ [][RunEnded => (status' = "idle" \/ UNCHANGED pvars)]_vars

\* A run has returned after executing every stage, and another was aborted
\* in EXTRACT after the stages before it.
C32_Witness ==
  /\ status = "done"
  /\ \A s \in Stages : Executed(s)

C32_WitnessAborted ==
  /\ status = "failed"
  /\ pc = EXTRACT
  /\ err = "ExtractionError"

\* ---------------------------------------------------------------- C33
\* C33: in a run with resume the stages skipped form a prefix of the stage
\* order: once the logic of a stage has been executed in the run, no later
\* stage is skipped from its checkpoint.
C33_SkippedArePrefix ==
  LET ev == Events IN
  \A s \in Stages : \A t \in Stages :
    (s < t /\ <<s, "exec">> \in ev) => <<t, "skip">> \notin ev

\* ---------------------------------------------------------------- C34
\* Every stage had a well-formed checkpoint when the run started.
AllValid(listing) == \A s \in Stages : listing[s].kind = "valid"

\* C34: a run with resume on a directory holding a well-formed checkpoint
\* for each of the seven stages executes no stage logic, calls no
\* collaborator, saves nothing and returns; in any run a step changes no
\* checkpoint file but the one of the stage being saved, the stages whose
\* checkpoint carries the time of this run are those executed and saved in
\* it, and the checkpoint of a skipped stage is the one an earlier run wrote.
C34_OnlyExecutedRewritten ==
  /\ []((status # "idle" /\ resume /\ AllValid(ckpt0)) =>
          LET ev == Events IN
          /\ \A s \in Stages :
               /\ <<s, "exec">> \notin ev
               /\ <<s, "call">> \notin ev
               /\ <<s, "save">> \notin ev
               /\ arg[s] = <<>>
               /\ ckpt[s].kind = "valid" /\ ckpt[s].timestamp < Now
          /\ status \in {"running", "done"}
          /\ status = "running" => phase = "check"
          /\ status = "done" => \A s \in Stages : <<s, "skip">> \in ev)
  /\ [](status # "idle" =>
          LET ev == Events IN
          \A s \in Stages :
            /\ (<<s, "save">> \in ev) <=>
                 (ckpt[s].kind = "valid" /\ ckpt[s].timestamp = Now)
            /\ (<<s, "save">> \in ev) => <<s, "exec">> \in ev
            /\ (<<s, "exec">> \in ev /\ (pc > s \/ status = "done")) =>
                 <<s, "save">> \in ev
            /\ (<<s, "skip">> \in ev) =>
                 (ckpt[s].kind = "valid" /\ ckpt[s].timestamp < Now))
  /\ [][status = "running" =>
          \A s \in Stages :
            (s # pc \/ phase # "save" \/ log'[Len(log')] = <<s, "skip">>) =>
              ckpt'[s] = ckpt[s]]_vars

\* The second run, with resume, has skipped all seven stages and returned;
\* every checkpoint is the one the first run wrote.
C34_Witness ==
  /\ status = "done" /\ resume /\ runs = 2
  /\ AllValid(ckpt0)
  /\ \A s \in Stages : Skipped(s) /\ ckpt[s].timestamp = 1

\* A run that skipped the first two stages and executed the third.
C34_WitnessPartly ==
  /\ status = "running" /\ resume /\ runs = 2 /\ pc = VALIDATE
  /\ Skipped(AUDIO) /\ Skipped(TRANSCRIBE) /\ HasEvent(SEGMENT, "save")
  /\ ckpt[AUDIO].timestamp = 1 /\ ckpt[TRANSCRIBE].timestamp = 1
  /\ ckpt[SEGMENT].timestamp = 2

====
